---- MODULE Spec2Model ----
(***************************************************************************)
(* A model of database/ckparser.py: the stateful line parser parse_text,   *)
(* the process-wide variable table it updates, the formula evaluator it    *)
(* calls, the serializer revert, the loader load_variables and the batch   *)
(* parse_all_files.                                                        *)
(*                                                                         *)
(* Python values are records [t, i, s]: t is the Python type, i the        *)
(* integer payload, s the string payload.  dicts and lists live in a heap  *)
(* of containers and are held by reference, as in Python: the frame stack  *)
(* `nodes` and the containers themselves point into the heap.  A canonical *)
(* line (one element of text.splitlines() after the normalizer ran) is a   *)
(* record [kind, key, op, val, items]:                                     *)
(*   kind "kv"     regex_line matched: key, operator, value text           *)
(*   kind "{"      the line is exactly {                                   *)
(*   kind "}"      the line is exactly }                                   *)
(*   kind "items"  any other line; items is regex_item.findall(line)       *)
(***************************************************************************)
EXTENDS Integers, Sequences, FiniteSets, TLC

(***************************************************************************)
(* Bounds of the model.                                                    *)
(***************************************************************************)
\* Longest file, in canonical lines.
MaxLines == 3
\* Number of parse_text calls made by one process.
MaxFiles == 2
\* Integer literals of the inputs are in -MaxInt..MaxInt.
MaxInt == 12

(***************************************************************************)
(* Python values.                                                          *)
(***************************************************************************)
IntV(n) == [t |-> "int", i |-> n, s |-> ""]
BoolV(b) == [t |-> "bool", i |-> IF b THEN 1 ELSE 0, s |-> ""]
StrV(x) == [t |-> "str", i |-> 0, s |-> x]
NoneV == [t |-> "none", i |-> 0, s |-> ""]
\* A float that is a multiple of 10^-RoundDigits, held as that multiple.
FloatV(q) == [t |-> "float", i |-> q, s |-> ""]
\* The float -0.0.
NegZero == [t |-> "float", i |-> 0, s |-> "-"]
\* An object of the builtins module, held by its name.
BuiltinV(name) == [t |-> "builtin", i |-> 0, s |-> name]
\* The tuple ().
EmptyTuple == [t |-> "tuple", i |-> 0, s |-> ""]
\* A reference to the container heap[id].
RefV(id) == [t |-> "ref", i |-> id, s |-> ""]

\* round(result, 5)
RoundDigits == 5
Scale == 10 ^ RoundDigits

IsNumber(v) == v.t \in {"int", "bool", "float"}
\* A number in units of 10^-RoundDigits.
Scaled(v) == IF v.t = "float" THEN v.i ELSE v.i * Scale

\* Python ==: True == 1, 2.0 == 2; a container is never equal to a scalar.
PyEq(a, b) ==
    IF IsNumber(a) /\ IsNumber(b) THEN Scaled(a) = Scaled(b)
    ELSE a = b

\* The sign bit of a number.
IsNegative(v) == v.i < 0 \/ (v.t = "float" /\ v.s = "-")

\* bool(v) of a scalar.
Truthy(v) ==
    CASE IsNumber(v) -> v.i # 0
      [] v.t = "str" -> v.s # ""
      [] v.t \in {"none", "tuple"} -> FALSE
      [] OTHER -> TRUE

(***************************************************************************)
(* Strings.  TLC strings are atoms that can be concatenated and compared,  *)
(* so the string tests of the code are computed against the finite set of  *)
(* fragments the inputs are made of.                                       *)
(***************************************************************************)
\* Identifiers: variable names and bare words.
Names == {"x", "y", "z", "foo", "bar", "a", "b", "k", "exit"}
\* The names among them that the builtins module binds.
Builtins == {"exit"}
\* Strings that occur between quotes.
QuotedStrings == {"", "yes", "1", "a b", "bar", "x"}
\* Formula operands as written in a file.
IntTokens == {"0", "1", "2", "3"}
FormulaNames == {"x", "y", "z", "foo", "bar"}
FormulaTokens == FormulaNames \cup IntTokens
FormulaOps == {"+", "-", "*", "/"}

Quote(x) == "\"" \o x \o "\""

\* An expression of a formula: one operand, a call without arguments, or
\* one binary operation.
Leaf(tok) == [op |-> "leaf", l |-> tok, r |-> ""]
Call(fn) == [op |-> "call", l |-> fn, r |-> ""]
Bin(l, op, r) == [op |-> op, l |-> l, r |-> r]
\* locals().clear(): a method call on the mapping eval was given as locals.
ClearCall == Call("locals().clear")
Exprs ==
    {Leaf(tk) : tk \in FormulaTokens \cup Builtins} \cup {Call("exit"), ClearCall}
    \cup {Bin(l, o, r) : l \in FormulaTokens, o \in FormulaOps, r \in FormulaTokens}
\* The text of an expression.
Render(e) ==
    CASE e.op = "leaf" -> e.l
      [] e.op = "call" -> e.l \o "()"
      [] OTHER -> e.l \o e.op \o e.r
\* Formula bodies that are no expression (eval raises SyntaxError).
BadBodies == {"2+", "x*"}
FormulaBodies == {Render(e) : e \in Exprs} \cup BadBodies
Formula(body) == "@[" \o body \o "]"

\* Text that starts with "@", and what follows the "@".
AtTexts ==
    [tx \in {"@" \o w : w \in Names} |-> CHOOSE w \in Names : tx = "@" \o w]
\* Text of the form @[body], and its body.
FormulaTexts ==
    [tx \in {Formula(fb) : fb \in FormulaBodies} |->
        CHOOSE fb \in FormulaBodies : tx = Formula(fb)]
\* The expression a formula body is the text of.
ExprOf == [fb \in {Render(e) : e \in Exprs} |-> CHOOSE e \in Exprs : Render(e) = fb]
\* value.startswith("@[") and value.endswith("]")
IsFormula(x) == x \in DOMAIN FormulaTexts
\* value.lstrip("@[").rstrip("]")
FormulaBody(x) == FormulaTexts[x]
\* str.startswith("@")
StartsWithAt(x) == x \in DOMAIN AtTexts \/ IsFormula(x)
\* str.lstrip("@")
LStripAt(x) ==
    IF x \in DOMAIN AtTexts THEN AtTexts[x]
    ELSE IF IsFormula(x) THEN "[" \o FormulaBody(x) \o "]"
    ELSE x
\* str.startswith("&")
AmpTexts == {"&" \o w : w \in Names \cup IntTokens}
StartsWithAmp(x) == x \in AmpTexts
\* value.endswith("{")
EndsWithBrace(x) == x = "{"
\* str.lower()
Lower(x) ==
    CASE x = "Yes" -> "yes"
      [] x = "NO" -> "no"
      [] x = "A" -> "a"
      [] x = "T" -> "t"
      [] x = "X" -> "x"
      [] OTHER -> x

\* booleans = {"yes": True, "no": False}
booleans == [w \in {"yes", "no"} |-> w = "yes"]
\* forced_list_keys = (...): the keys (in lower case) that are always stored as
\* a list.  The tuple is a module attribute the deployment fills in ("don't
\* hesitate to add more if needed"); as shipped it is empty.  No operation
\* writes it.
VARIABLE forced_list_keys
\* The key compared as written.
ForcedAsWritten(key) == key \in forced_list_keys
\* Lines 141 and 166: key.lower() in forced_list_keys
Forced(key) == Lower(key) \in forced_list_keys

\* The integer an integer literal denotes, and the string a quoted one does.
IntTexts ==
    [tx \in {ToString(n) : n \in -MaxInt..MaxInt} |->
        CHOOSE n \in -MaxInt..MaxInt : ToString(n) = tx]
QuotedTexts ==
    [tx \in {Quote(q) : q \in QuotedStrings} |-> CHOOSE q \in QuotedStrings : Quote(q) = tx]

\* ast.literal_eval(text): [ok, v]; ok is FALSE when it raises.
LiteralEval(x) ==
    IF x \in DOMAIN IntTexts THEN [ok |-> TRUE, v |-> IntV(IntTexts[x])]
    ELSE IF x \in DOMAIN QuotedTexts THEN [ok |-> TRUE, v |-> StrV(QuotedTexts[x])]
    ELSE IF x \in {"True", "False"} THEN [ok |-> TRUE, v |-> BoolV(x = "True")]
    ELSE IF x = "None" THEN [ok |-> TRUE, v |-> NoneV]
    ELSE [ok |-> FALSE, v |-> NoneV]

(***************************************************************************)
(* The variable table: the module-level dict `variables`, in insertion     *)
(* order, as a sequence of [k, v].                                         *)
(***************************************************************************)
VarHas(vars, n) == \E j \in DOMAIN vars : vars[j].k = n
\* variables.get(n)
VarGet(vars, n) ==
    IF VarHas(vars, n) THEN vars[CHOOSE j \in DOMAIN vars : vars[j].k = n].v ELSE NoneV
\* variables[n] = v
VarSet(vars, n, v) ==
    IF VarHas(vars, n)
    THEN [j \in DOMAIN vars |-> IF vars[j].k = n THEN [k |-> n, v |-> v] ELSE vars[j]]
    ELSE Append(vars, [k |-> n, v |-> v])

(***************************************************************************)
(* The formula evaluator: the substitution loop and eval(formula, None,    *)
(* variables).  An operand is a literal value, a name [t |-> "name"], text *)
(* that is no operand [t |-> "bad"] or no text at all [t |-> "empty"].     *)
(***************************************************************************)
NameOp(n) == [t |-> "name", i |-> 0, s |-> n]
BadOp == [t |-> "bad", i |-> 0, s |-> ""]
EmptyOp == [t |-> "empty", i |-> 0, s |-> ""]
\* The operand a piece of formula text is.
OperandOfText(x) ==
    IF x = "" THEN EmptyOp
    ELSE IF x \in DOMAIN IntTexts THEN IntV(IntTexts[x])
    ELSE IF x \in Names \cup {"True", "False", "None"} THEN NameOp(x)
    ELSE BadOp

\* re.sub(rf"\b{var_name}\b", str(var_value), formula) on one operand.
SubstOperand(opnd, var_name, var_value) ==
    IF opnd.t = "name" /\ opnd.s = var_name
    THEN IF var_value.t = "str" THEN OperandOfText(var_value.s)
         ELSE IF var_value.t = "none" THEN NameOp("None")
         \* the text of str(exit) is no expression
         ELSE IF var_value.t = "builtin" THEN BadOp
         ELSE var_value
    ELSE opnd

\* for var_name, var_value in variables.items(): formula = re.sub(...)
RECURSIVE SubstAll(_, _, _)
SubstAll(opnd, vars, j) ==
    IF j > Len(vars) THEN opnd
    ELSE SubstAll(SubstOperand(opnd, vars[j].k, vars[j].v), vars, j + 1)

\* The value of an operand under eval(formula, None, variables): [st, v], st
\* "ok", "raise" or "exit".  A name is looked up in the table (the locals),
\* then in the globals of the module, which bind none of Names, then in the
\* builtins.
EvalOperand(opnd, vars) ==
    CASE opnd.t \in {"bad", "empty"} -> [st |-> "raise", v |-> NoneV]
      [] opnd.t = "name" ->
            IF opnd.s \in {"True", "False"} THEN [st |-> "ok", v |-> BoolV(opnd.s = "True")]
            ELSE IF opnd.s = "None" THEN [st |-> "ok", v |-> NoneV]
            ELSE IF VarHas(vars, opnd.s) THEN [st |-> "ok", v |-> VarGet(vars, opnd.s)]
            ELSE IF opnd.s \in Builtins THEN [st |-> "ok", v |-> BuiltinV(opnd.s)]
            ELSE [st |-> "raise", v |-> NoneV]
      [] OTHER -> [st |-> "ok", v |-> opnd]

Abs(n) == IF n < 0 THEN -n ELSE n

\* [q, r] with a * b = q * d + r and 0 <= r < d, for a, b >= 0 and d > 0,
\* computed by doubling so that no intermediate product leaves 32 bits.
RECURSIVE MulDiv(_, _, _)
MulDiv(a, b, d) ==
    IF b = 0 THEN [q |-> 0, r |-> 0]
    ELSE LET h == MulDiv(a, b \div 2, d)
             r2 == 2 * h.r + (IF b % 2 = 1 THEN a % d ELSE 0)
             q2 == 2 * h.q + (IF b % 2 = 1 THEN a \div d ELSE 0)
         IN  [q |-> q2 + (r2 \div d), r |-> r2 % d]

\* A float that is a multiple of 2^-RoundDigits: the double holds it exactly.
IsExact(v) == Scaled(v) % (5 ^ RoundDigits) = 0
\* a * b / d rounded to the nearest integer as round(x, 5) rounds the double
\* x (lines 189 and 213).  Where the exact result lies midway between two
\* multiples of 10^-RoundDigits the double lies next to the middle, on the
\* side the binary roundings of the operands and of the operation put it:
\* half_up says whether that is the far side.  When the operands (exact)
\* and the middle are doubles without error, round() takes the middle to
\* the even neighbour.
RoundMulDiv(a, b, d, exact, half_up) ==
    LET md == MulDiv(Abs(a), Abs(b), Abs(d))
        mag == IF 2 * md.r < Abs(d) THEN md.q
               ELSE IF 2 * md.r > Abs(d) THEN md.q + 1
               ELSE IF exact /\ (2 * md.q + 1) % (5 ^ RoundDigits) = 0
               THEN (IF md.q % 2 = 0 THEN md.q ELSE md.q + 1)
               ELSE IF half_up THEN md.q + 1 ELSE md.q
        neg == ((a < 0) # (b < 0)) # (d < 0)
    IN  IF neg THEN -mag ELSE mag

RECURSIVE Repeat(_, _)
Repeat(x, n) == IF n <= 0 THEN "" ELSE x \o Repeat(x, n - 1)

\* a op b in Python, the result rounded as round(result, 5) rounds a float.
\* A float result of zero keeps its sign.
Arith(op, a, b, half_up) ==
    LET anyFloat == a.t = "float" \/ b.t = "float"
        Signed(q, neg) == IF q = 0 /\ neg THEN NegZero ELSE FloatV(q)
        Num(q, neg) == IF anyFloat THEN Signed(q, neg) ELSE IntV(q \div Scale)
        exact == IsExact(a) /\ IsExact(b)
    IN  IF IsNumber(a) /\ IsNumber(b)
        THEN CASE op = "+" ->
                    [st |-> "ok", v |-> Num(Scaled(a) + Scaled(b), a = NegZero /\ b = NegZero)]
               [] op = "-" ->
                    [st |-> "ok",
                     v |-> Num(Scaled(a) - Scaled(b), a = NegZero /\ Scaled(b) = 0 /\ b # NegZero)]
               [] op = "*" ->
                    IF anyFloat
                    THEN [st |-> "ok",
                          v |-> Signed(RoundMulDiv(Scaled(a), Scaled(b), Scale, exact, half_up),
                                       IsNegative(a) # IsNegative(b))]
                    ELSE [st |-> "ok", v |-> IntV(a.i * b.i)]
               [] OTHER ->
                    IF Scaled(b) = 0 THEN [st |-> "raise", v |-> NoneV]
                    ELSE [st |-> "ok",
                          v |-> Signed(RoundMulDiv(Scaled(a), Scale, Scaled(b), exact, half_up),
                                       IsNegative(a) # IsNegative(b))]
        ELSE IF op = "+" /\ a.t = "str" /\ b.t = "str"
        THEN [st |-> "ok", v |-> StrV(a.s \o b.s)]
        ELSE IF op = "*" /\ a.t = "str" /\ b.t \in {"int", "bool"}
        THEN [st |-> "ok", v |-> StrV(Repeat(a.s, b.i))]
        ELSE IF op = "*" /\ b.t = "str" /\ a.t \in {"int", "bool"}
        THEN [st |-> "ok", v |-> StrV(Repeat(b.s, a.i))]
        ELSE [st |-> "raise", v |-> NoneV]

\* +a and -a in Python.
Unary(op, a) ==
    IF ~IsNumber(a) THEN [st |-> "raise", v |-> NoneV]
    ELSE IF op = "+"
    THEN [st |-> "ok", v |-> IF a.t = "bool" THEN IntV(a.i) ELSE a]
    ELSE IF a.t = "float"
    THEN [st |-> "ok", v |-> IF a.i = 0 /\ ~IsNegative(a) THEN NegZero ELSE FloatV(-a.i)]
    ELSE [st |-> "ok", v |-> IntV(-a.i)]

\* Lines 204-213: the formula text with every known variable substituted, then
\* eval and round.  An Exception gives result None; exit() raises SystemExit,
\* which is no Exception.  A name bound to the empty string leaves nothing
\* where it stood: what is left of `x-3` is -3, of `exit()` the tuple ().
\* [st, v] with st "ok" or "exit".
EvalFormula(body, vars, half_up) ==
    IF body \in BadBodies THEN [st |-> "ok", v |-> NoneV]
    ELSE
    LET e == ExprOf[body]
        l == SubstAll(OperandOfText(e.l), vars, 1)
        r == SubstAll(OperandOfText(e.r), vars, 1)
        lv == EvalOperand(l, vars)
        rv == EvalOperand(r, vars)
        Caught(res) == IF res.st = "ok" THEN res ELSE [st |-> "ok", v |-> NoneV]
    IN  CASE e.op = "leaf" -> Caught(lv)
          [] e.op = "call" ->
               IF l.t = "name" /\ l.s = "exit" /\ ~VarHas(vars, "exit")
               THEN [st |-> "exit", v |-> NoneV]
               ELSE IF l.t = "empty" THEN [st |-> "ok", v |-> EmptyTuple]
               ELSE [st |-> "ok", v |-> NoneV]
          [] l.t = "empty" /\ e.op \in {"+", "-"} /\ rv.st = "ok" -> Caught(Unary(e.op, rv.v))
          [] OTHER ->
               IF lv.st # "ok" \/ rv.st # "ok" THEN [st |-> "ok", v |-> NoneV]
               ELSE Caught(Arith(e.op, lv.v, rv.v, half_up))

\* Line 208: eval(formula, None, variables): the table is the locals of the
\* expression, so locals() in it is the table itself and locals().clear()
\* empties it (unless the substitution loop replaced one of the two words).
EvalLocals(body, table) ==
    IF body = Render(ClearCall) /\ ~VarHas(table, "locals") /\ ~VarHas(table, "clear")
    THEN <<>>
    ELSE table

(***************************************************************************)
(* The heap of dicts and lists.  A container is [t, e]: t is "dict" or     *)
(* "list", e its entries [k, v] in insertion order (k is "" in a list).    *)
(***************************************************************************)
Entry(k, v) == [k |-> k, v |-> v]
EmptyDict == [t |-> "dict", e |-> <<>>]
ListOf(vals) == [t |-> "list", e |-> [j \in DOMAIN vals |-> Entry("", vals[j])]]

\* key in container
KeyIn(c, key) ==
    IF c.t = "dict" THEN \E j \in DOMAIN c.e : c.e[j].k = key
    ELSE \E j \in DOMAIN c.e : PyEq(c.e[j].v, StrV(key))
\* dict[key]
Get(c, key) == c.e[CHOOSE j \in DOMAIN c.e : c.e[j].k = key].v
\* dict[key] = v
Put(c, key, v) ==
    IF \E j \in DOMAIN c.e : c.e[j].k = key
    THEN [c EXCEPT !.e = [j \in DOMAIN c.e |-> IF c.e[j].k = key THEN Entry(key, v) ELSE c.e[j]]]
    ELSE [c EXCEPT !.e = Append(@, Entry(key, v))]
\* list.append(v)
Push(c, v) == [c EXCEPT !.e = Append(@, Entry("", v))]
\* isinstance(v, list)
IsListVal(heap, v) == v.t = "ref" /\ heap[v.i].t = "list"

\* The digits of a fraction of Scale, without the trailing zeros.
RECURSIVE Fraction(_, _)
Fraction(n, digits) ==
    IF digits = 0 \/ (n = 0 /\ digits < RoundDigits) THEN ""
    ELSE ToString(n \div (10 ^ (digits - 1))) \o Fraction(n % (10 ^ (digits - 1)), digits - 1)
\* str(v) of a scalar.  A float is written with the fewest digits that give
\* it back, in exponent notation below 0.0001.
PyStr(v) ==
    CASE v.t = "str" -> v.s
      [] v.t = "int" -> ToString(v.i)
      [] v.t = "bool" -> IF v.i = 1 THEN "True" ELSE "False"
      [] v.t = "float" ->
            (IF IsNegative(v) THEN "-" ELSE "")
                \o (IF v.i # 0 /\ Abs(v.i) < 10 THEN ToString(Abs(v.i)) \o "e-05"
                    ELSE ToString(Abs(v.i) \div Scale) \o "."
                            \o Fraction(Abs(v.i) % Scale, RoundDigits))
      [] v.t = "builtin" -> "Use exit() or Ctrl-D (i.e. EOF) to exit"
      [] v.t = "tuple" -> "()"
      [] OTHER -> "None"

(***************************************************************************)
(* The returned document as a nested value: a scalar [t, i, s, e] with     *)
(* e = <<>>, a dict or list with its entries [k, v] dereferenced.          *)
(***************************************************************************)
Scalar(v) == [t |-> v.t, i |-> v.i, s |-> v.s, e |-> <<>>]
RECURSIVE Deref(_, _)
Deref(heap, v) ==
    IF v.t = "ref"
    THEN [t |-> heap[v.i].t, i |-> 0, s |-> "",
          e |-> [j \in DOMAIN heap[v.i].e |->
                    Entry(heap[v.i].e[j].k, Deref(heap, heap[v.i].e[j].v))]]
    ELSE Scalar(v)

\* repr(d): the text Python writes for a value inside a container, and
\* str(d) of a container (the strings of the documents hold no quote that
\* repr would escape).
RECURSIVE PyRepr(_)
PyRepr(d) ==
    LET RECURSIVE Joined(_)
        Joined(j) ==
            IF j > Len(d.e) THEN ""
            ELSE (IF j > 1 THEN ", " ELSE "")
                    \o (IF d.t = "dict" THEN "'" \o d.e[j].k \o "': " ELSE "")
                    \o PyRepr(d.e[j].v) \o Joined(j + 1)
    IN  CASE d.t = "str" -> "'" \o d.s \o "'"
          [] d.t = "dict" -> "{" \o Joined(1) \o "}"
          [] d.t = "list" -> "[" \o Joined(1) \o "]"
          [] OTHER -> PyStr(d)
\* str(d): f"{d}" of any value.
StrOf(d) == IF d.t \in {"dict", "list"} THEN PyRepr(d) ELSE PyStr(d)

(***************************************************************************)
(* The state of one parse_text call while it runs: m = [st, heap, nodes,   *)
(* vars, lvars].  st is "ok", "raise" (an Exception was raised in the try  *)
(* block) or "exit" (SystemExit was raised).  heap[1] is root; nodes is    *)
(* the frame stack of [name, id]; vars is the global table `variables`,    *)
(* lvars the local `local_variables`.                                      *)
(***************************************************************************)
Frame(name, id) == [name |-> name, id |-> id]
Raise(m) == [m EXCEPT !.st = "raise"]
TopFrame(m) == m.nodes[Len(m.nodes)]

\* container[key] = v: a list cannot be indexed by a string (TypeError).
SetKey(m, id, key, v) ==
    IF m.heap[id].t = "list" THEN Raise(m)
    ELSE [m EXCEPT !.heap[id] = Put(@, key, v)]

\* Allocates a container; its id is Len(heap) of the result.
Alloc(m, c) == [m EXCEPT !.heap = Append(@, c)]

\* variables[name] = local_variables[name] = v
Register(m, key, v) ==
    [m EXCEPT !.vars = VarSet(@, LStripAt(key), v), !.lvars = VarSet(@, LStripAt(key), v)]

\* Lines 136-139 and 160-164: the key is already in the node; wrap the old
\* value in a list if it is none and append v.
AppendDuplicate(m, id, key, v) ==
    IF m.heap[id].t = "list" THEN Raise(m)
    ELSE LET old == Get(m.heap[id], key)
         IN  IF IsListVal(m.heap, old)
             THEN [m EXCEPT !.heap[old.i] = Push(@, v)]
             ELSE LET m1 == Alloc(m, ListOf(<<old, v>>))
                  IN  [m1 EXCEPT !.heap[id] = Put(@, key, RefV(Len(m1.heap)))]

\* Lines 133-149: the value opens a block.
OpenBlock(m, key) ==
    LET id == TopFrame(m).id
        m1 == Alloc(m, EmptyDict)
        item == Len(m1.heap)
        m2 == IF KeyIn(m.heap[id], key) THEN AppendDuplicate(m1, id, key, RefV(item))
              ELSE IF Forced(key)
              THEN LET m3 == Alloc(m1, ListOf(<<RefV(item)>>))
                   IN  SetKey(m3, id, key, RefV(Len(m3.heap)))
              ELSE IF m.heap[id].t = "list" THEN [m1 EXCEPT !.heap[id] = Push(@, RefV(item))]
              ELSE SetKey(m1, id, key, RefV(item))
    IN  IF m2.st # "ok" THEN m2
        ELSE [m2 EXCEPT !.nodes = Append(@, Frame(key, item))]

\* Lines 150-158: the value text as a Python value.  booleans[value] is
\* looked up with the text as written (KeyError for "Yes").
ConvertRaises(x) == Lower(x) \in DOMAIN booleans /\ x \notin DOMAIN booleans
ConvertValue(x) ==
    IF x \in DOMAIN booleans THEN BoolV(booleans[x])
    ELSE IF x # "" /\ LiteralEval(x).ok THEN LiteralEval(x).v
    ELSE StrV(x)

\* The reference is left unresolved.
ResolvedNever(table, raw) == NoneV
\* Lines 199, 226 and 295: variables.get(value.lstrip("@"))
Resolved(table, raw) == VarGet(table, LStripAt(raw))
\* The name looked up is that of the key.
KnownNameOfKey(table, key, value) == VarGet(table, LStripAt(key))
\* Line 228: variables.get(value)
KnownName(table, key, value) == VarGet(table, value)
\* {"@type": type, "@value": value, "@result": result}
TypedRef(type, value, result) ==
    [t |-> "dict",
     e |-> <<Entry("@type", StrV(type)), Entry("@value", value), Entry("@result", result)>>]
\* {"@operator": operator, "@value": value}
OperatorValue(op, value) ==
    [t |-> "dict", e |-> <<Entry("@operator", StrV(op)), Entry("@value", value)>>]

\* node[key] = a new container c
SetNew(m, id, key, c) ==
    LET m1 == Alloc(m, c) IN SetKey(m1, id, key, RefV(Len(m1.heap)))

\* Lines 170-200: the key is new and the operator is not "=".
OperatorLine(m, id, key, op, value, half_up) ==
    LET m1 == SetNew(m, id, key, OperatorValue(op, value))
        ov == Len(m1.heap)
    IN  IF m1.st # "ok" \/ value.t # "str" THEN m1
        ELSE IF value.s = ""
        THEN LET m2 == Alloc(m1, EmptyDict)
                 item == Len(m2.heap)
             IN  [m2 EXCEPT !.heap[ov] = Put(@, "@value", RefV(item)),
                            !.nodes = Append(@, Frame("@", item))]
        ELSE IF IsFormula(value.s)
        THEN LET res == EvalFormula(FormulaBody(value.s), m.vars, half_up)
                 m2 == [m1 EXCEPT !.vars = EvalLocals(FormulaBody(value.s), @)]
             IN  IF res.st = "exit" THEN [m1 EXCEPT !.st = "exit"]
                 ELSE SetNew(m2, ov, "@value", TypedRef("formula", value, res.v))
        ELSE IF StartsWithAt(value.s) \/ VarHas(m.vars, value.s)
        THEN SetNew(m1, ov, "@value",
                    TypedRef("variable", value, Resolved(m.vars, value.s)))
        ELSE m1

\* Lines 202-244: the key is new, the operator is "=" and the value a string.
StringLine(m, id, key, value, half_up) ==
    IF IsFormula(value.s)
    THEN LET res == EvalFormula(FormulaBody(value.s), m.vars, half_up)
             m0 == [m EXCEPT !.vars = EvalLocals(FormulaBody(value.s), @)]
             m1 == SetNew(m0, id, key, TypedRef("formula", value, res.v))
         IN  IF res.st = "exit" THEN [m EXCEPT !.st = "exit"]
             ELSE IF m1.st = "ok" /\ Truthy(res.v) THEN Register(m1, key, res.v)
             ELSE m1
    ELSE IF StartsWithAt(value.s)
    THEN SetNew(m, id, key, TypedRef("variable", value, Resolved(m.vars, value.s)))
    ELSE IF Truthy(KnownName(m.vars, key, value.s))
    THEN IF KnownName(m.vars, key, value.s).t # "str"
         THEN LET m1 == SetNew(m, id, key, TypedRef("variable", value, KnownName(m.vars, key, value.s)))
              IN  IF m1.st = "ok" /\ value.s # "" /\ StartsWithAt(key)
                  THEN Register(m1, key, value)
                  ELSE m1
         ELSE m
    ELSE IF StartsWithAmp(key) /\ m.heap[id].t = "list"
    THEN [m EXCEPT !.heap[id] = Push(@, StrV("&" \o value.s \o "&"))]
    ELSE LET m1 == SetKey(m, id, key, value)
         IN  IF m1.st = "ok" /\ value.s # "" /\ StartsWithAt(key)
             THEN Register(m1, key, value)
             ELSE m1

\* Lines 160-164 with the test of line 161 left out: every duplicate is appended.
DuplicateScalarAlways(m, id, key, value) == AppendDuplicate(m, id, key, value)

\* Lines 160-164: the key is already in the node; a value equal to the one
\* bound is dropped ("Avoid single duplicates").
DuplicateScalar(m, id, key, value) ==
    IF m.heap[id].t = "list" THEN Raise(m)
    ELSE IF ~PyEq(Get(m.heap[id], key), value) THEN AppendDuplicate(m, id, key, value)
    ELSE m

\* Lines 159-249: a key OPERATOR value line whose value opens no block.
ScalarLine(m, key, op, x, half_up) ==
    LET id == TopFrame(m).id
        value == ConvertValue(x)
    IN  IF ConvertRaises(x) THEN Raise(m)
        ELSE IF KeyIn(m.heap[id], key) THEN DuplicateScalar(m, id, key, value)
        ELSE IF Forced(key)
        THEN SetNew(m, id, key, ListOf(<<value>>))
        ELSE IF op # "=" THEN OperatorLine(m, id, key, op, value, half_up)
        ELSE IF value.t = "str" THEN StringLine(m, id, key, value, half_up)
        ELSE LET m1 == SetKey(m, id, key, value)
             IN  IF m1.st = "ok" /\ Truthy(value) /\ StartsWithAt(key)
                 THEN Register(m1, key, value)
                 ELSE m1

\* Lines 129-249: the line matches regex_line.
KeyValueLine(m, line, half_up) ==
    IF EndsWithBrace(line.val) THEN OpenBlock(m, line.key)
    ELSE ScalarLine(m, line.key, line.op, line.val, half_up)

\* Lines 289-302: one item of a list line.
AppendItem(m, id, item) ==
    IF StartsWithAt(item)
    THEN LET m1 == Alloc(m, TypedRef("variable", StrV(item), Resolved(m.vars, item)))
         IN  [m1 EXCEPT !.heap[id] = Push(@, RefV(Len(m1.heap)))]
    ELSE IF LiteralEval(item).ok THEN [m EXCEPT !.heap[id] = Push(@, LiteralEval(item).v)]
    ELSE [m EXCEPT !.heap[id] = Push(@, StrV(item))]

RECURSIVE AppendItems(_, _, _, _)
AppendItems(m, id, items, j) ==
    IF j > Len(items) THEN m
    ELSE AppendItems(AppendItem(m, id, items[j]), id, items, j + 1)

\* Lines 260-280: the node of a list line is made a list.  [m, skip]: skip is
\* the `continue` of line 275.
CoerceToList(m) ==
    LET top == TopFrame(m)
        c == m.heap[top.id]
        prev == m.nodes[Len(m.nodes) - 1].id
        \* prev[node_name] = node = fresh
        Replace(fresh) ==
            LET m1 == Alloc(m, fresh)
                m2 == SetKey(m1, prev, top.name, RefV(Len(m1.heap)))
            IN  IF m2.st # "ok" THEN m2
                ELSE [m2 EXCEPT !.nodes[Len(m.nodes)] = Frame(top.name, Len(m1.heap))]
    IN  IF c.t = "list" THEN [m |-> m, skip |-> FALSE]
        ELSE IF Len(m.nodes) < 2 THEN [m |-> Raise(m), skip |-> FALSE]
        ELSE IF top.name # ""
        THEN IF c.e # <<>>
             THEN IF StartsWithAmp(c.e[1].k)
                  THEN [m |-> Replace(ListOf(<<StrV("&" \o StrOf(Deref(m.heap, c.e[1].v)) \o "&")>>)),
                        skip |-> FALSE]
                  ELSE IF top.name \in {"on_actions", "events"}
                  THEN [m |-> Replace(ListOf(<<>>)), skip |-> FALSE]
                  ELSE [m |-> m, skip |-> TRUE]
             ELSE [m |-> Replace(ListOf(<<>>)), skip |-> FALSE]
        ELSE IF m.heap[prev].t = "list"
        THEN IF m.heap[prev].e = <<>> THEN [m |-> Raise(m), skip |-> FALSE]
             ELSE LET m1 == Alloc(m, ListOf(<<>>))
                      n == Len(m1.heap)
                  IN  [m |-> [m1 EXCEPT !.heap[prev].e[Len(m.heap[prev].e)] = Entry("", RefV(n)),
                                        !.nodes[Len(m.nodes)] = Frame("", n)],
                       skip |-> FALSE]
        ELSE [m |-> m, skip |-> FALSE]

\* Lines 258-302: a list line, or a { that opens a block in a list.
ListLine(m, line) ==
    LET co == CoerceToList(m)
        m1 == co.m
        id == TopFrame(m1).id
    IN  IF co.skip \/ m1.st # "ok" THEN m1
        \* dict has no append (AttributeError)
        ELSE IF m1.heap[id].t # "list" THEN Raise(m1)
        ELSE IF line.kind = "{"
        THEN LET m2 == Alloc(m1, EmptyDict)
                 item == Len(m2.heap)
             IN  [m2 EXCEPT !.heap[id] = Push(@, RefV(item)),
                            !.nodes = Append(@, Frame("", item))]
        ELSE AppendItems(m1, id, line.items, 1)

\* Lines 121-302: the body of the try block for one line.
LineBody(m, line, half_up) ==
    \* node_name, node = nodes[-1]
    IF m.nodes = <<>> THEN Raise(m)
    ELSE IF line.kind = "kv" THEN KeyValueLine(m, line, half_up)
    ELSE IF line.kind = "{" /\ TopFrame(m).name = "@" THEN m
    ELSE IF line.kind = "}" THEN [m EXCEPT !.nodes = SubSeq(@, 1, Len(@) - 1)]
    ELSE ListLine(m, line)

(***************************************************************************)
(* Canonical lines and the files the specifications draw from.             *)
(***************************************************************************)
KV(key, op, val) == [kind |-> "kv", key |-> key, op |-> op, val |-> val, items |-> <<>>]
BraceLine == [kind |-> "{", key |-> "", op |-> "", val |-> "", items |-> <<>>]
CloseLine == [kind |-> "}", key |-> "", op |-> "", val |-> "", items |-> <<>>]
ItemsLine(items) == [kind |-> "items", key |-> "", op |-> "", val |-> "", items |-> items]

\* Every file of at most MaxLines lines over a set of lines.
TextsOver(lines) == UNION {[1..n -> lines] : n \in 0..MaxLines}

\* Duplicate keys, blocks and lists under one key; one variable definition.
BlockLines ==
    {KV("a", "=", "1"), KV("a", "=", "2"), KV("a", "=", "yes"), KV("a", "=", "bar"),
     KV("a", "=", "{"), CloseLine, ItemsLine(<<"2", "3">>), KV("@bar", "=", "3")}

\* Variable definitions, references and formulas.
VariableLines ==
    {KV("@foo", "=", "bar"), KV("k", "=", "foo"), KV("k", "=", "1"),
     KV("@x", "=", Formula("2+3")), KV("@y", "=", Formula("x/2")),
     KV("@z", "=", Formula("1-1")), KV("x", "=", Formula("2+3")),
     KV("@x", "=", Formula("exit()")), CloseLine}

\* Lines that register names, a formula that reaches the locals of eval, a
\* line that raises and a formula that leaves the interpreter.
TableLines ==
    {KV("@foo", "=", "bar"), KV("@x", "=", "1"), KV("@x", "=", Formula("2+3")),
     KV("x", "=", Formula("2+3")), KV("k", "=", "@x"),
     KV("k", "=", Formula(Render(ClearCall))), KV("a", ">", Formula(Render(ClearCall))),
     KV("k", "=", "Yes"), KV("@y", "=", Formula("exit()"))}

\* Variables defined by literals, and references to them by sigil, by name,
\* by quoted name and in a formula, also through a name the table binds to
\* the name of another.
ReferenceLines ==
    {KV("@x", "=", "1"), KV("@x", "=", "2"), KV("@x", "=", "0"), KV("@y", "=", "@x"),
     KV("@y", "=", "x"), KV("k", "=", "@x"), KV("k", "=", "@y"), KV("k", "=", "1"),
     KV("k", "=", Quote("x")), KV("k", "=", Formula("x+1")), KV("k", "=", Formula("y+1")),
     KV("a", "=", "{"), ItemsLine(<<"@x">>), CloseLine}

\* The lines of a sequence of sequences of lines, in order.
\* Written lines that open and close blocks and bare list lines, in a block
\* that is empty, that holds a key, that holds a comment key, and under the
\* key on_actions.  A bare { stays a line of its own only right after a line
\* that opens a block (regex_block, line 108, joins it to any other word).
BracketLines ==
    {<<KV("a", "=", "{")>>, <<KV("on_actions", "=", "{")>>, <<KV("a", ">", ""), BraceLine>>,
     <<KV("a", "=", "{"), BraceLine>>, <<CloseLine>>, <<KV("b", "=", "1")>>,
     <<KV("&x", "=", "1")>>,
     <<ItemsLine(<<"1", "2">>)>>}

\* Lines with a key of the allow-list ForcedKeys, in either case.
ForcedLines ==
    {KV("a", "=", "1"), KV("A", "=", "2"), KV("a", "=", "{"), KV("b", "=", "{"),
     KV("a", ">", "1"), KV("b", "=", "1"), ItemsLine(<<"1", "2">>), CloseLine}

RECURSIVE Flatten(_)
Flatten(groups) == IF groups = <<>> THEN <<>> ELSE Head(groups) \o Flatten(Tail(groups))
\* Every file of at most MaxLines written lines, each written line given as
\* the canonical lines the normalizer makes of it.
TextsOfWritten(written) == {Flatten(g) : g \in UNION {[1..n -> written] : n \in 0..MaxLines}}

\* Operators other than "=", before scalars and before blocks.  The
\* normalizer puts the "{" of `a > {` on a line of its own and leaves
\* `a >= {` one line.
OperatorLines ==
    {<<KV("a", ">", "1")>>, <<KV("a", "!=", "yes")>>, <<KV("a", ">=", "{")>>,
     <<KV("a", ">", ""), BraceLine>>, <<KV("a", "=", "1")>>, <<KV("b", "<", "@x")>>,
     <<KV("a", "=", "{")>>, <<CloseLine>>}

(***************************************************************************)
(* revert (lines 467-571): a document back to text.  A document is the     *)
(* nested value [t, i, s, e] that Deref gives.  The text is kept as the    *)
(* sequence of its lines, each with the depth of its `tabs` prefix and its *)
(* content as a line record; LineText gives the characters of a line.      *)
(* Keys and strings of the documents hold no "=", "{" or "}", and the      *)
(* "@value" of a reference is a scalar.                                    *)
(***************************************************************************)
\* Lines 88-90 and 120-310: parse_text on the canonical lines, with the table
\* as it is when the call begins: the document, or the failure, and the
\* table as the call leaves it.  halves[j] is how the formula of line j
\* rounds a result midway between two multiples of 10^-RoundDigits.
RECURSIVE RunLines(_, _, _, _)
RunLines(m, lines, j, halves) ==
    IF j > Len(lines) THEN m
    ELSE LET n == LineBody(m, lines[j], halves[j])
         IN  IF n.st # "ok" THEN n ELSE RunLines(n, lines, j + 1, halves)
parse_text(lines, table, halves) ==
    LET m == RunLines([st |-> "ok", heap |-> <<EmptyDict>>, nodes |-> <<Frame("", 1)>>,
                       vars |-> table, lvars |-> <<>>], lines, 1, halves)
    IN  [st |-> m.st,
         doc |-> IF m.st = "ok" THEN Deref(m.heap, RefV(1)) ELSE Scalar(NoneV),
         vars |-> m.vars]

\* from_key=None, prev_key=None; in an f-string None is written "None".
NoneKey == "None"
Block(entries) == [t |-> "dict", i |-> 0, s |-> "", e |-> entries]
List(docs) == [t |-> "list", i |-> 0, s |-> "", e |-> [j \in DOMAIN docs |-> Entry("", docs[j])]]
Has(d, key) == d.t = "dict" /\ \E j \in DOMAIN d.e : d.e[j].k = key
Item(d, key) == d.e[CHOOSE j \in DOMAIN d.e : d.e[j].k = key].v
ValueOf(d) == [t |-> d.t, i |-> d.i, s |-> d.s]

Indented(depth, line) == [depth |-> depth, line |-> line]
CommentLine(x) == [kind |-> "comment", key |-> "", op |-> "", val |-> x, items |-> <<>>]
RawLine(x) == [kind |-> "raw", key |-> "", op |-> "", val |-> x, items |-> <<>>]
Reverted(lines) == [st |-> "ok", lines |-> lines]
RevertRaises == [st |-> "raise", lines |-> <<>>]
\* tabs = sep * depth: a negative depth gives no prefix.
Tabs(depth) == IF depth < 0 THEN 0 ELSE depth
Shift(lines, n) == [j \in DOMAIN lines |-> Indented(lines[j].depth + n, lines[j].line)]

\* The keys of the documents that some rule of list_keys_rules matches.
list_keys_rules == {"ks", "color", "k_gfx"}
ColorTags == {"rgb", "hsv", "hls", "hsv360"}
\* from_key.replace("|", " ")
ReplacePipe(key) == IF key = "a|b" THEN "a b" ELSE key
\* value.startswith("&") and value.endswith("&")
AmpWrapped(x) == x \in {"&", "&bar&"}
\* str.strip("&")
StripAmp(x) ==
    CASE x = "&bar&" -> "bar"
      [] x = "&" -> ""
      [] x \in AmpTexts -> CHOOSE w \in Names \cup IntTokens : x = "&" \o w
      [] OTHER -> x
HasSpace(x) == x \in {"a b", "say \"a\""}
DollarWrapped(x) == x \in {"$", "$x$"}
\* value.replace('"', '\\"')
EscapeQuotes(x) == IF x = "say \"a\"" THEN "say \\\"a\\\"" ELSE x

\* f"{value}" of a scalar: str(value).
Format(v) == PyStr(v)

\* An operator with its first "=" replaced: str.replace("=", operator, 1).
ReplaceEqual(op, operator) ==
    CASE op = "=" -> operator
      [] op = "==" -> operator \o "="
      [] op = ">=" -> ">" \o operator
      [] op = "<=" -> "<" \o operator
      [] op = "!=" -> "!" \o operator
      [] op = "?=" -> "?" \o operator
      [] OTHER -> op
\* line.replace("=", operator, 1): the first "=" of a line is in its operator.
ReplaceInLine(l, operator) ==
    IF l.line.kind = "kv"
    THEN Indented(l.depth, [l.line EXCEPT !.op = ReplaceEqual(l.line.op, operator)])
    ELSE l

\* Line 571: f"{from_key or value} = {value}"; result is not written.
RefLine(from_key, value, result) ==
    KV(IF from_key # NoneKey THEN from_key ELSE value, "=", value)

\* A list of three elements counts as a color too.
IsColorOfThree(obj, from_key) ==
    /\ from_key # NoneKey
    /\ Len(obj.e) > 2
    /\ obj.e[1].v.t = "str"
    /\ obj.e[1].v.s \in ColorTags
\* Line 498: from_key and len(obj) > 3 and obj[0] in ("rgb", "hsv", "hls", "hsv360")
IsColor(obj, from_key) ==
    /\ from_key # NoneKey
    /\ Len(obj.e) > 3
    /\ obj.e[1].v.t = "str"
    /\ obj.e[1].v.s \in ColorTags

RevertedValue(kind, txt, lines) == [st |-> "ok", kind |-> kind, txt |-> txt, lines |-> lines]
ValueRaises == [st |-> "raise", kind |-> "text", txt |-> "", lines |-> <<>>]

RECURSIVE revert(_, _, _, _)
RECURSIVE revert_value(_, _, _)
RECURSIVE revert_special(_, _, _)
RECURSIVE RevertItems(_, _, _, _)
RECURSIVE RevertValues(_, _, _, _, _)

\* Lines 491-492: for key, value in obj.items(): lines.extend(revert(value, ...))
RevertItems(entries, j, from_key, depth) ==
    IF j > Len(entries) THEN Reverted(<<>>)
    ELSE LET head == revert(entries[j].v, entries[j].k, from_key, depth)
             rest == RevertItems(entries, j + 1, from_key, depth)
         IN  IF head.st = "raise" \/ rest.st = "raise" THEN RevertRaises
             ELSE Reverted(head.lines \o rest.lines)

\* Lines 503-504 and 511-512: for value in obj: lines.extend(revert(value, ...))
RevertValues(entries, j, from_key, prev_key, depth) ==
    IF j > Len(entries) THEN Reverted(<<>>)
    ELSE LET head == revert(entries[j].v, from_key, prev_key, depth)
             rest == RevertValues(entries, j + 1, from_key, prev_key, depth)
         IN  IF head.st = "raise" \/ rest.st = "raise" THEN RevertRaises
             ELSE Reverted(head.lines \o rest.lines)

\* Lines 530-549.  A dict comes back as the lines of revert at depth 0, a
\* list as itself, a string quoted where it has to be, any other value as
\* it is.
revert_value(value, from_key, prev_key) ==
    CASE value.t = "bool" -> RevertedValue("text", IF value.i = 1 THEN "yes" ELSE "no", <<>>)
      [] value.t = "str" ->
            RevertedValue("text",
                IF AmpWrapped(value.s) THEN "#" \o value.s
                ELSE IF HasSpace(value.s) \/ DollarWrapped(value.s)
                     THEN Quote(EscapeQuotes(value.s))
                     ELSE value.s,
                <<>>)
      [] value.t = "dict" ->
            LET r == revert(value, from_key, prev_key, 0)
            IN  IF r.st = "raise" THEN ValueRaises ELSE RevertedValue("lines", "", r.lines)
      [] value.t = "list" -> RevertedValue("list", "", value.e)
      [] OTHER -> RevertedValue("text", Format(ValueOf(value)), <<>>)

\* Lines 552-571.  kind "none" is the None of a dict that is no special
\* object; the one line of a string result is a kv line.
revert_special(obj, from_key, prev_key) ==
    IF Has(obj, "@operator")
    THEN IF ~Has(obj, "@value") THEN ValueRaises
         ELSE LET operator == Item(obj, "@operator")
                  value == revert_value(Item(obj, "@value"), from_key, prev_key)
              IN  IF value.st = "raise" THEN ValueRaises
                  ELSE IF value.kind = "lines"
                  THEN IF value.lines = <<>> \/ operator.t # "str" THEN ValueRaises
                       ELSE RevertedValue("lines", "",
                                <<ReplaceInLine(value.lines[1], operator.s)>>
                                    \o Tail(value.lines))
                  ELSE IF value.kind = "list"
                  THEN IF value.lines = <<>> THEN ValueRaises
                       ELSE IF value.lines[1].v.t # "str" \/ operator.t # "str"
                            THEN ValueRaises
                       ELSE RevertedValue("lines", "",
                                [j \in DOMAIN value.lines |->
                                    Indented(0, RawLine(StrOf(value.lines[j].v)))])
                  ELSE RevertedValue("lines", "",
                           <<Indented(0, KV(from_key, StrOf(operator), value.txt))>>)
    ELSE IF Has(obj, "@type")
    THEN IF ~Has(obj, "@value") \/ ~Has(obj, "@result") THEN ValueRaises
         ELSE RevertedValue("lines", "",
                  <<Indented(0, RefLine(from_key, StrOf(Item(obj, "@value")),
                                        StrOf(Item(obj, "@result"))))>>)
    ELSE RevertedValue("none", "", <<>>)

\* The close is written for a block below depth 0 only.
WritesCloseNested(from_key, depth) == depth > 0
\* Line 493: if from_key or depth > 0
WritesClose(from_key, depth) == from_key # NoneKey \/ depth > 0
\* Lines 467-527, without the join of line 526: the lines of the text.
revert(obj, from_key, prev_key, depth) ==
    CASE obj.t = "dict" ->
            LET special == revert_special(obj, from_key, prev_key)
            IN  IF special.st = "raise" THEN RevertRaises
                ELSE IF special.kind # "none"
                THEN Reverted(Shift(special.lines, Tabs(depth)))
                ELSE LET key == IF from_key # NoneKey THEN ReplacePipe(from_key) ELSE from_key
                         open == IF from_key # NoneKey
                                 THEN <<Indented(Tabs(depth), KV(key, "=", "{"))>>
                                 ELSE IF depth > 0 THEN <<Indented(Tabs(depth), BraceLine)>>
                                 ELSE <<>>
                         body == RevertItems(obj.e, 1, key, depth + 1)
                         close == IF WritesClose(from_key, depth)
                                  THEN <<Indented(Tabs(depth), CloseLine)>>
                                  ELSE <<>>
                     IN  IF body.st = "raise" THEN RevertRaises
                         ELSE Reverted(open \o body.lines \o close)
      [] obj.t = "list" ->
            LET is_list == IsColor(obj, from_key)
                key == IF is_list THEN from_key \o " " \o obj.e[1].v.s ELSE from_key
                values == IF is_list THEN Tail(obj.e) ELSE obj.e
            IN  IF key # NoneKey /\ ~is_list /\ key \notin list_keys_rules
                THEN RevertValues(values, 1, key, prev_key, depth)
                ELSE LET \* key.replace("|", " "): the tag of a color holds no "|"
                         open == IF is_list
                                 THEN KV(ReplacePipe(from_key) \o " " \o obj.e[1].v.s, "=", "{")
                                 ELSE IF key # NoneKey THEN KV(ReplacePipe(key), "=", "{")
                                 ELSE BraceLine
                         body == RevertValues(values, 1, NoneKey, NoneKey, depth + 1)
                     IN  IF body.st = "raise" THEN RevertRaises
                         ELSE Reverted(<<Indented(Tabs(depth), open)>> \o body.lines
                                          \o <<Indented(Tabs(depth), CloseLine)>>)
      [] OTHER ->
            \* Line 514: isinstance(obj, (int, float)) or obj
            IF ~(obj.t \in {"int", "bool", "float", "builtin"} \/ (obj.t = "str" /\ obj.s # ""))
            THEN Reverted(<<>>)
            ELSE IF from_key # NoneKey
            THEN IF StartsWithAmp(from_key) \/ (obj.t = "str" /\ AmpWrapped(obj.s))
                 THEN IF obj.t # "str" THEN RevertRaises
                      ELSE Reverted(<<Indented(Tabs(depth), CommentLine(StripAmp(obj.s)))>>)
                 ELSE Reverted(<<Indented(Tabs(depth),
                                    KV(ReplacePipe(from_key), "=",
                                       revert_value(obj, from_key, prev_key).txt))>>)
            ELSE Reverted(<<Indented(Tabs(depth),
                               ItemsLine(<<revert_value(obj, NoneKey, NoneKey).txt>>))>>)

\* The characters of a line of the text: f"{tabs}{line}" with sep of 4 spaces.
LineText(l) ==
    Repeat("    ", l.depth) \o
        (CASE l.line.kind = "kv" -> l.line.key \o " " \o l.line.op \o " " \o l.line.val
           [] l.line.kind = "items" -> l.line.items[1]
           [] l.line.kind = "comment" -> "#" \o l.line.val
           [] l.line.kind = "raw" -> l.line.val
           [] OTHER -> l.line.kind)

\* The words of the keys and values that revert writes with a space in them:
\* a key with "|" replaced, a color key followed by its tag, a string.
SpacedWords ==
    {<<"a", "b">>} \cup {<<key, tag>> : key \in Names \cup AmpTexts \cup {"ks", "color"}, tag \in ColorTags}
        \cup {<<"a", "b", tag>> : tag \in ColorTags}
RECURSIVE JoinWords(_)
JoinWords(ws) == IF Len(ws) = 1 THEN ws[1] ELSE ws[1] \o " " \o JoinWords(Tail(ws))
\* Line 289: regex_item.findall on text that holds no quote: the words.
WordsOf(x) ==
    IF \E ws \in SpacedWords : JoinWords(ws) = x
    THEN CHOOSE ws \in SpacedWords : JoinWords(ws) = x
    ELSE <<x>>
\* The operator ends with "=": regex_values (line 112) joins a following "{"
\* to it.
EndsWithEqual(op) ==
    LET ends == {"=", "==", ">=", "<=", "!="}
    IN  op \in ends \cup {ReplaceEqual(o, operator) : o \in ends, operator \in ends}
\* What the normalizer of parse_text (lines 92-118, comments=False) and the
\* regexes of the loop (lines 129 and 289) make of one line revert wrote.  A
\* comment is removed.  A key with a space does not match regex_line: the
\* line is read as list items.  The "{" after an operator that does not end
\* with "=" is left on a line of its own.
NormalizedLine(line) ==
    CASE line.kind = "comment" -> <<>>
      [] line.kind = "raw" -> <<ItemsLine(WordsOf(line.val))>>
      [] line.kind = "kv" /\ Len(WordsOf(line.key)) > 1 ->
            IF line.val = "{"
            THEN IF EndsWithEqual(line.op)
                 THEN <<ItemsLine(Append(WordsOf(line.key), line.op \o "{"))>>
                 ELSE <<ItemsLine(Append(WordsOf(line.key), line.op)), BraceLine>>
            ELSE <<ItemsLine(WordsOf(line.key) \o <<line.op, line.val>>)>>
      [] line.kind = "kv" /\ line.val = "{" /\ ~EndsWithEqual(line.op) ->
            <<KV(line.key, line.op, ""), BraceLine>>
      [] OTHER -> <<line>>
\* A value regex_color (line 43) takes for the tag of a color: \w+.
IsWord(x) == x \in Names \cup ColorTags \cup {"yes", "no"} \cup {ToString(n) : n \in 0..MaxInt}
\* The lines the normalizer drops: a comment (regex_comment, line 103) and a
\* line without a character (line 124).
Dropped(l) == l.line.kind = "comment" \/ (l.line.kind = "raw" /\ l.line.val = "")
\* The first word of a line, which regex_inline (line 111) takes for the
\* value of the line before it when that line ends with its operator.
FirstWord(line) ==
    CASE line.kind = "kv" -> WordsOf(line.key)[1]
      [] line.kind = "items" -> line.items[1]
      [] line.kind = "raw" -> WordsOf(line.val)[1]
      [] OTHER -> line.kind
\* What is left of a line without its first word, as the lines of the loop.
\* An "=" at the start is joined to the word by regex_values (line 112),
\* any other operator is read as a line of its own.
AfterFirstWord(line) ==
    CASE line.kind = "raw" /\ Len(WordsOf(line.val)) > 1 ->
            <<Indented(1, RawLine(JoinWords(Tail(WordsOf(line.val)))))>>
      [] line.kind = "kv" /\ Len(WordsOf(line.key)) > 1 ->
            <<Indented(1, KV(JoinWords(Tail(WordsOf(line.key))), line.op, line.val))>>
      [] line.kind = "kv" /\ line.op \in {">=", "<=", "!="} ->
            <<Indented(1, KV(IF line.op = ">=" THEN ">" ELSE IF line.op = "<=" THEN "<" ELSE "!",
                             "=", line.val))>>
      [] line.kind = "kv" /\ line.op \in {">", "<"} ->
            IF line.val = "{" THEN <<Indented(1, ItemsLine(<<line.op>>)), Indented(1, BraceLine)>>
            ELSE IF line.val = "" THEN <<Indented(1, ItemsLine(<<line.op>>))>>
            ELSE <<Indented(1, ItemsLine(<<line.op, line.val>>))>>
      [] line.kind = "kv" /\ line.val = "{" -> <<Indented(1, BraceLine)>>
      [] OTHER -> <<>>
\* The operator of the line starts with "=" and the key is one word: the
\* key stays with its operator when it is split from the line before.
KeepsOperator(line) ==
    line.kind = "kv" /\ Len(WordsOf(line.key)) = 1 /\ line.op \in {"=", "=="}
\* Lines 92-118 over the lines revert wrote, three regexes of which read
\* past the end of a line.  regex_block (line 108) joins an unindented line
\* of one word to a "{" on the next line as word={ and does so for a "}"
\* too; regex_color (line 110) takes "= word" before a "{" on the next line
\* for the tag of a color and moves the "{" in front of the word;
\* regex_inline (line 111) takes the first word of the next line for the
\* value of a line that ends with its operator, and regex_values (line 112)
\* joins the two when the operator ends with "=".
RECURSIVE NormalizedFrom(_)
NormalizedFrom(lines) ==
    IF lines = <<>> THEN <<>>
    ELSE LET cur == lines[1].line
             opens == Len(lines) > 1 /\ lines[2].line.kind = "{"
             word == IF cur.kind = "items" THEN cur.items[1] ELSE cur.val
             next == lines[2].line
         IN  CASE opens /\ lines[1].depth = 0 /\ cur.kind = "}" ->
                    <<KV("}", "=", "")>> \o NormalizedFrom(Tail(lines))
               [] opens /\ lines[1].depth = 0 /\ cur.kind \in {"items", "raw"}
                        /\ Len(WordsOf(word)) = 1 ->
                    (IF word = Quote("a b") THEN <<ItemsLine(<<word, "={">>)>>
                     ELSE IF \E y \in {"$", "$x$"} : word = Quote(y)
                     THEN <<KV(CHOOSE y \in {"$", "$x$"} : word = Quote(y), "=", "{")>>
                     ELSE <<KV(word, "=", "{")>>) \o NormalizedFrom(Tail(Tail(lines)))
               [] opens /\ cur.kind = "kv" /\ EndsWithEqual(cur.op) /\ IsWord(cur.val) ->
                    NormalizedLine([cur EXCEPT !.val = "{"]) \o <<ItemsLine(<<cur.val>>)>>
                        \o NormalizedFrom(Tail(Tail(lines)))
               [] Len(lines) > 1 /\ cur.kind = "kv" /\ cur.val = "" /\ EndsWithEqual(cur.op) ->
                    IF KeepsOperator(next)
                    THEN <<KV(cur.key, cur.op,
                              next.key \o next.op
                                  \o (IF next.val \in {"", "{"} THEN "" ELSE " " \o next.val))>>
                            \o (IF next.val = "{" THEN <<BraceLine>> ELSE <<>>)
                            \o NormalizedFrom(Tail(Tail(lines)))
                    ELSE (IF Len(WordsOf(cur.key)) > 1 /\ lines[2].depth = 0
                          THEN <<ItemsLine(Append(WordsOf(cur.key), cur.op \o FirstWord(next)))>>
                          ELSE NormalizedLine([cur EXCEPT !.val = FirstWord(next)]))
                            \o NormalizedFrom(AfterFirstWord(next) \o Tail(Tail(lines)))
               [] Len(lines) > 1 /\ cur.kind = "kv" /\ cur.val = "" /\ next.kind \in {"kv", "raw"} ->
                    NormalizedLine(cur)
                        \o (IF KeepsOperator(next)
                            THEN (IF next.val = "{" THEN <<KV(next.key, next.op, ""), BraceLine>>
                                  ELSE <<next>>) \o NormalizedFrom(Tail(Tail(lines)))
                            ELSE <<ItemsLine(<<FirstWord(next)>>)>>
                                    \o NormalizedFrom(AfterFirstWord(next) \o Tail(Tail(lines))))
               [] OTHER -> NormalizedLine(cur) \o NormalizedFrom(Tail(lines))
Normalized(lines) == NormalizedFrom(SelectSeq(lines, LAMBDA l : ~Dropped(l)))

\* The documents revert is given: scalars, Lists of up to MaxItems elements
\* and Blocks, under a key no rule matches ("k") and a key the plural rule
\* matches ("ks").
MaxItems == 2
DocScalars ==
    {Scalar(v) : v \in {BoolV(TRUE), IntV(1), IntV(2), StrV("bar"), StrV("a b"),
                        StrV("yes"), StrV("")}}
DocLists ==
    {List(ds) : ds \in UNION {[1..n -> DocScalars \cup {Block(<<>>)}] : n \in 0..MaxItems}}
DocValues ==
    DocScalars \cup DocLists \cup {Block(<<>>)} \cup {Block(<<Entry("k", d)>>) : d \in DocScalars}
Documents ==
    {Block(<<>>)}
        \cup {Block(<<Entry(key, d)>>) : key \in {"k", "ks"}, d \in DocValues}
        \cup {Block(<<Entry("k", d), Entry("ks", e)>>) : d \in DocScalars, e \in DocValues}

\* The special objects parse_text builds (lines 176-200, 214-227, 268-275).
OperatorValueOf(operator, d) ==
    Block(<<Entry("@operator", Scalar(StrV(operator))), Entry("@value", d)>>)
RefOf(type, raw, res) ==
    Block(<<Entry("@type", Scalar(StrV(type))), Entry("@value", Scalar(StrV(raw))),
            Entry("@result", Scalar(res))>>)
\* Documents with special objects: at the root, under a key, under a key that
\* starts with "&", in a List under a key a list rule matches and under one
\* none matches, as the value of an OperatorValue; the value of an
\* OperatorValue is a scalar, a reference, a Block or a List.
Results == {NoneV, IntV(2), StrV("bar")}
RefDocs ==
    {RefOf("variable", "@x", res) : res \in Results}
        \cup {RefOf("formula", Formula("x*2"), res) : res \in Results}
OperatedDocs ==
    {Scalar(IntV(1)), Scalar(StrV("a b")), Scalar(BoolV(TRUE)), Block(<<>>),
     Block(<<Entry("b", Scalar(IntV(1)))>>),
     List(<<Scalar(StrV("bar")), Scalar(StrV("a b"))>>)} \cup RefDocs
OperatorDocs == {OperatorValueOf(op, d) : op \in {">", ">=", "!="}, d \in OperatedDocs}
SpecialDocs == RefDocs \cup OperatorDocs
SpecialDocuments ==
    SpecialDocs
        \cup {Block(<<Entry(key, d)>>) :
                key \in {"k", "ks", "&1"}, d \in SpecialDocs \cup {Scalar(IntV(1)), Scalar(StrV("bar"))}}
        \cup {Block(<<Entry(key, List(<<d>>))>>) : key \in {"k", "ks"}, d \in SpecialDocs}
        \cup {Block(<<Entry("a", Block(<<Entry("k", d)>>))>>) : d \in SpecialDocs}

\* Documents with a List that begins with a tag, of up to MaxColorValues
\* further elements, under a key no rule matches, a key a rule matches and a
\* key with a "|".
MaxColorValues == 3
ColorValues == {Scalar(IntV(1)), Scalar(IntV(2)), Scalar(StrV("rgb"))}
TaggedLists ==
    {List(<<Scalar(StrV(tag))>> \o rest) :
        tag \in ColorTags \cup {"bar"},
        rest \in UNION {[1..n -> ColorValues] : n \in 0..MaxColorValues}}
ColorDocuments ==
    {Block(<<Entry(key, d)>>) : key \in {"k", "color", "a|b"}, d \in TaggedLists}
        \cup TaggedLists

(***************************************************************************)
(* The process: a caller that makes up to MaxFiles parse_text calls, one   *)
(* after the other, sharing the module-level table `variables`.            *)
(***************************************************************************)
VARIABLES
    variables,              \* the module-level dict `variables`
    pc,                     \* "ready", "loop" (in the for loop), "returned",
                            \* "exited" (SystemExit left parse_text), "reverted"
                            \* or "revert_raised" (revert returned or raised),
                            \* "walk" (in the loops of parse_all_files),
                            \* "batch_returned" or "load_raised"
                            \* (load_variables raised)
    calls,                  \* parse_text calls made so far
    text,                   \* the canonical lines of the current call
    return_text_on_error,   \* the parameter of the current call
    line_number,            \* the line the loop is at
    heap, nodes,            \* root (heap[1]) and what it holds; the frame stack
    local_variables,        \* the local dict of the current call
    result,                 \* what the last call returned: [kind, doc]
    raised,                 \* an exception was raised in the current call
    vars_before,            \* `variables` when the current call began
    obj,                    \* the document the current call reverts,
                            \* NoDocument if it reverts none
    reverted,               \* the lines revert returned in the current call
    path,                   \* parse_all_files: the directories os.walk yields,
                            \* in its order, each with its files
    variables_first,        \* parse_all_files: the parameter
    loop,                   \* parse_all_files: the pass, 0 or 1
    current_path,           \* parse_all_files: the directory the walk is at
    filename,               \* parse_all_files: the file of it the walk is at
    success, errors,        \* parse_all_files: the paths parsed, the paths failed
    parsed                  \* the paths parse_file was called with, in order

\* The state of parse_all_files.
batch == <<path, variables_first, loop, current_path, filename, success, errors, parsed>>
vars == <<variables, pc, calls, text, return_text_on_error, line_number, heap, nodes,
          local_variables, result, raised, vars_before, obj, reverted,
          forced_list_keys, batch>>

NoResult == [kind |-> "pending", doc |-> Scalar(NoneV)]
NoDocument == Scalar(NoneV)

\* The module is imported and no call was made yet.
Imported ==
    /\ variables = <<>>
    /\ pc = "ready"
    /\ calls = 0
    /\ text = <<>>
    /\ return_text_on_error = FALSE
    /\ line_number = 0
    /\ heap = <<>>
    /\ nodes = <<>>
    /\ local_variables = <<>>
    /\ result = NoResult
    /\ raised = FALSE
    /\ vars_before = <<>>
    /\ obj = NoDocument
    /\ reverted = <<>>
    /\ path = <<>>
    /\ variables_first = TRUE
    /\ loop = 0
    /\ current_path = 0
    /\ filename = 0
    /\ success = {}
    /\ errors = <<>>
    /\ parsed = <<>>

\* The allow-list as shipped (lines 24-26).
Init == Imported /\ forced_list_keys = {}
\* The allow-list with one key configured.
ForcedKeys == {"a"}
InitForced == Imported /\ forced_list_keys = ForcedKeys

\* Lines 79-119: parse_text is called; the normalizer leaves the canonical lines.
ParseTextBegin(texts) ==
    /\ pc = "ready"
    /\ calls < MaxFiles
    /\ \E tx \in texts, flag \in BOOLEAN :
          /\ text' = tx
          /\ return_text_on_error' = flag
    /\ pc' = "loop"
    /\ calls' = calls + 1
    /\ line_number' = 1
    /\ heap' = <<EmptyDict>>
    /\ nodes' = <<Frame("", 1)>>
    /\ local_variables' = <<>>
    /\ result' = NoResult
    /\ raised' = FALSE
    /\ vars_before' = variables
    /\ obj' = NoDocument
    /\ reverted' = <<>>
    /\ UNCHANGED <<variables, forced_list_keys, batch>>

\* parse_text(revert(obj)): revert (lines 467-527) writes the text and
\* parse_text (lines 79-119) is called with it.  An exception of revert
\* reaches the caller.
RevertParseBegin(documents) ==
    /\ pc = "ready"
    /\ calls < MaxFiles
    /\ \E d \in documents, flag \in BOOLEAN :
          LET r == revert(d, NoneKey, NoneKey, -1)
          IN  /\ obj' = d
              /\ return_text_on_error' = flag
              /\ reverted' = IF r.st = "ok" THEN r.lines ELSE <<>>
              /\ text' = IF r.st = "ok" THEN Normalized(r.lines) ELSE <<>>
              /\ pc' = IF r.st = "ok" THEN "loop" ELSE "revert_raised"
              /\ raised' = (r.st # "ok")
    /\ calls' = calls + 1
    /\ line_number' = 1
    /\ heap' = <<EmptyDict>>
    /\ nodes' = <<Frame("", 1)>>
    /\ local_variables' = <<>>
    /\ result' = NoResult
    /\ vars_before' = variables
    /\ UNCHANGED <<variables, forced_list_keys, batch>>

\* Lines 467-527: revert(obj) is called; it returns its text or raises.
Revert(documents) ==
    /\ pc = "ready"
    /\ calls < MaxFiles
    /\ \E d \in documents :
          LET r == revert(d, NoneKey, NoneKey, -1)
          IN  /\ obj' = d
              /\ reverted' = IF r.st = "ok" THEN r.lines ELSE <<>>
              /\ pc' = IF r.st = "ok" THEN "reverted" ELSE "revert_raised"
              /\ raised' = (r.st # "ok")
    /\ calls' = calls + 1
    /\ UNCHANGED <<variables, text, return_text_on_error, line_number, heap, nodes,
                   local_variables, result, vars_before, forced_list_keys, batch>>

\* Lines 120-309: one iteration of the loop, with its except clause.
ParseLine ==
    /\ pc = "loop"
    /\ line_number <= Len(text)
    /\ LET m == [st |-> "ok", heap |-> heap, nodes |-> nodes, vars |-> variables,
                 lvars |-> local_variables]
       IN  \E half_up \in BOOLEAN :
           LET n == LineBody(m, text[line_number], half_up) IN
           /\ variables' = n.vars
           /\ local_variables' = n.lvars
           /\ raised' = (n.st # "ok")
           /\ IF n.st = "ok"
              THEN /\ heap' = n.heap
                   /\ nodes' = n.nodes
                   /\ line_number' = line_number + 1
                   /\ UNCHANGED <<pc, result>>
              ELSE /\ heap' = <<>>
                   /\ nodes' = <<>>
                   /\ line_number' = line_number
                   /\ IF n.st = "raise"
                      \* return text if return_text_on_error else None
                      THEN /\ pc' = "returned"
                           /\ result' = [kind |-> IF return_text_on_error THEN "text" ELSE "None",
                                         doc |-> Scalar(NoneV)]
                      \* SystemExit is no Exception: it leaves parse_text
                      ELSE /\ pc' = "exited"
                           /\ UNCHANGED result
    /\ UNCHANGED <<calls, text, return_text_on_error, vars_before, obj, reverted,
                   forced_list_keys, batch>>

\* Line 310: return root.
ParseReturn ==
    /\ pc = "loop"
    /\ line_number > Len(text)
    /\ result' = [kind |-> "dict", doc |-> Deref(heap, RefV(1))]
    /\ pc' = "returned"
    /\ heap' = <<>>
    /\ nodes' = <<>>
    /\ UNCHANGED <<variables, calls, text, return_text_on_error, line_number, obj,
                   local_variables, raised, vars_before, reverted, forced_list_keys,
                   batch>>

\* What load_variables may find: no file variables.json, a variables.json
\* without a file _variables.json beside it, or a saved table.
NoSavedFile == [found |-> "none", table |-> <<>>]
NoSavedTable == [found |-> "unread", table |-> <<>>]
SavedTables ==
    {<<>>, <<[k |-> "x", v |-> IntV(2)]>>, <<[k |-> "x", v |-> FloatV(33333)]>>}
SavedFiles == {NoSavedFile, NoSavedTable} \cup {[found |-> "table", table |-> t] : t \in SavedTables}
\* Lines 607-615: load_variables(), which the script calls before its first
\* parse (line 659) and a caller may call whenever it is not in a call:
\* before the first parse, between two parses, after a batch.  Without
\* variables.json it returns; else it opens _variables.json, which raises
\* when that file is missing, and rebinds `variables` to what the file
\* holds, whatever the parses before it registered.
LoadVariables ==
    /\ pc \in {"ready", "batch_returned"}
    /\ \E saved \in SavedFiles :
          /\ variables' = IF saved.found = "table" THEN saved.table ELSE variables
          /\ pc' = IF saved.found = "unread" THEN "load_raised" ELSE pc
    /\ UNCHANGED <<calls, text, return_text_on_error, line_number, heap, nodes,
                   local_variables, result, raised, vars_before, obj, reverted,
                   forced_list_keys, batch>>

\* The caller is done with the returned value and goes on to its next call.
NextCall ==
    /\ pc \in {"returned", "reverted", "revert_raised"}
    /\ pc' = "ready"
    /\ text' = <<>>
    /\ return_text_on_error' = FALSE
    /\ line_number' = 0
    /\ local_variables' = <<>>
    /\ result' = NoResult
    /\ raised' = FALSE
    /\ vars_before' = <<>>
    /\ obj' = NoDocument
    /\ reverted' = <<>>
    /\ UNCHANGED <<variables, calls, heap, nodes, forced_list_keys, batch>>

(***************************************************************************)
(* parse_all_files (lines 354-398) and parse_file (lines 312-351).         *)
(***************************************************************************)
\* The written texts of the files of a batch: a file without text, one that
\* holds a comment only, one that registers x, one that refers to x, one
\* whose parse fails (booleans["Yes"] is a KeyError) and one whose formula
\* leaves the interpreter.
Written(lines) == [j \in DOMAIN lines |-> Indented(0, lines[j])]
BlankText == <<>>
CommentText == Written(<<CommentLine("bar")>>)
RegisterText == Written(<<KV("@x", "=", "1")>>)
ReferText == Written(<<KV("k", "=", "@x")>>)
FailText == Written(<<KV("k", "=", "Yes")>>)
ExitText == Written(<<KV("@x", "=", Formula("exit()"))>>)
BatchTexts == {BlankText, CommentText, RegisterText, ReferText, FailText, ExitText}
\* Line 332: not text.strip(), every line of the text is white space.
Blank(lines) == \A j \in DOMAIN lines : lines[j].line.kind = "raw" /\ lines[j].line.val = ""

\* File names, as the characters they are written with.
ATxt == <<"a", ".", "t", "x", "t">>
AtTxt == <<"a", "t", ".", "t", "x", "t">>
AUpperTxt == <<"a", ".", "T", "X", "T">>
AJson == <<"a", ".", "j", "s", "o", "n">>
\* "".join(name)
RECURSIVE JoinChars(_)
JoinChars(name) == IF name = <<>> THEN "" ELSE Head(name) \o JoinChars(Tail(name))
\* Line 376: filename.lower().endswith(".txt")
IsTxt(name) ==
    /\ Len(name) >= 4
    /\ [j \in 1..4 |-> Lower(name[Len(name) - 4 + j])] = <<".", "t", "x", "t">>
\* str.rstrip(chars): the characters of chars are taken from the end for as
\* long as the end is one of them.
RECURSIVE RStrip(_, _)
RStrip(name, chars) ==
    IF name # <<>> /\ name[Len(name)] \in chars
    THEN RStrip(SubSeq(name, 1, Len(name) - 1), chars)
    ELSE name

\* A file: its name and its written text.
File(name, tx) == [name |-> name, text |-> tx]
BatchFiles ==
    {File(ATxt, tx) : tx \in BatchTexts}
        \cup {File(AtTxt, RegisterText), File(AtTxt, FailText),
              File(AUpperTxt, ReferText), File(AJson, ReferText)}
\* The directory parse_all_files is given, and the directories below it.
RootPaths == {"mod", "script_values"}
SubDirectories == {"script_values", "events"}
\* A directory os.walk yields: the root it lies under, its path below the
\* root ("" for the root itself) and its files, no two of one name.
MaxDirs == 2
MaxDirFiles == 2
Directories ==
    {[root |-> r, sub |-> sd, files |-> fs] :
        r \in RootPaths, sd \in SubDirectories \cup {""},
        fs \in {l \in UNION {[1..n -> BatchFiles] : n \in 0..MaxDirFiles} :
                   \A i, j \in DOMAIN l : l[i].name = l[j].name => i = j}}
\* What os.walk(path) yields: nothing when path is no directory, else the
\* root and then the directories below it.
Trees ==
    {t \in UNION {[1..n -> Directories] : n \in 0..MaxDirs} :
        \A i, j \in DOMAIN t :
            /\ t[i].root = t[1].root
            /\ (t[i].sub = "") = (i = 1)
            /\ t[i].sub = t[j].sub => i = j}

\* current_path as os.walk yields it.
DirPath(d) == IF d.sub = "" THEN d.root ELSE d.root \o "/" \o d.sub
\* current_path.endswith("script_values")
EndsWithScriptValues(d) == IF d.sub = "" THEN d.root = "script_values" ELSE d.sub = "script_values"
\* os.path.join(current_path, filename)
FilePath(d, name) == DirPath(d) \o "/" \o JoinChars(name)
\* Line 390: filepath.replace(path, "").replace(os.sep, "/").lstrip("/")
\* .rstrip(".txt").  replace takes every occurrence of the root out of the
\* path, a directory of that name below the root too; rstrip takes the
\* characters ".", "t" and "x" from the end, not the suffix ".txt".
SuccessKey(d, name) ==
    LET rel == IF d.sub = d.root THEN "" ELSE d.sub
        stem == JoinChars(RStrip(name, {".", "t", "x"}))
    IN  IF rel = "" THEN stem ELSE rel \o "/" \o stem
\* The directory and the file the walk is at.
InWalk == pc = "walk" /\ current_path <= Len(path)
AtFile == InWalk /\ filename <= Len(path[current_path].files)
ThisDir == path[current_path]
ThisFile == path[current_path].files[filename]
\* The first pass leaves out every directory but the script_values ones.
SkippedNever(d) == FALSE
\* Lines 372-374: variables_first and not loop and not
\* current_path.endswith("script_values")
Skipped(d) == variables_first /\ loop = 0 /\ ~EndsWithScriptValues(path[d])

\* Lines 354-369: parse_all_files(path, variables_first) is called.
ParseAllFilesBegin(trees) ==
    /\ pc = "ready"
    /\ calls = 0
    /\ \E tree \in trees, flag \in BOOLEAN :
          /\ path' = tree
          /\ variables_first' = flag
    /\ pc' = "walk"
    /\ loop' = 0
    /\ current_path' = 1
    /\ filename' = 1
    /\ success' = {}
    /\ errors' = <<>>
    /\ parsed' = <<>>
    /\ UNCHANGED <<variables, calls, text, return_text_on_error, line_number, heap, nodes,
                   local_variables, result, raised, vars_before, obj, reverted,
                   forced_list_keys>>

\* Lines 372-374: continue, the directory is left out of the first pass.
SkipDirectory ==
    /\ InWalk
    /\ Skipped(current_path)
    /\ current_path' = current_path + 1
    /\ filename' = 1
    /\ UNCHANGED <<variables, pc, calls, text, return_text_on_error, line_number, heap,
                   nodes, local_variables, result, raised, vars_before, obj, reverted,
                   forced_list_keys, path, variables_first, loop, success, errors, parsed>>

\* Lines 376-377: continue, the name does not end in ".txt".
SkipFile ==
    /\ AtFile
    /\ ~Skipped(current_path)
    /\ ~IsTxt(ThisFile.name)
    /\ filename' = filename + 1
    /\ UNCHANGED <<variables, pc, calls, text, return_text_on_error, line_number, heap,
                   nodes, local_variables, result, raised, vars_before, obj, reverted,
                   forced_list_keys, path, variables_first, loop, current_path, success,
                   errors, parsed>>

\* Lines 378-386 and 312-335: parse_file is called with the path.  For a
\* text of white space it returns None (lines 332-333), which is no str: the
\* file is a success (lines 390-391).  For any other text, one of comments
\* included, it calls parse_text with return_text_on_error=True.  success
\* is given as its keys: every value is True (keep_data is off).
ParseFile ==
    /\ AtFile
    /\ ~Skipped(current_path)
    /\ IsTxt(ThisFile.name)
    /\ parsed' = Append(parsed, FilePath(ThisDir, ThisFile.name))
    /\ IF Blank(ThisFile.text)
       THEN /\ success' = success \cup {SuccessKey(ThisDir, ThisFile.name)}
            /\ filename' = filename + 1
            /\ UNCHANGED <<pc, calls, text, return_text_on_error, line_number, heap, nodes,
                           local_variables, result, raised, vars_before>>
       ELSE /\ pc' = "loop"
            /\ text' = Normalized(ThisFile.text)
            /\ return_text_on_error' = TRUE
            /\ calls' = calls + 1
            /\ line_number' = 1
            /\ heap' = <<EmptyDict>>
            /\ nodes' = <<Frame("", 1)>>
            /\ local_variables' = <<>>
            /\ result' = NoResult
            /\ raised' = FALSE
            /\ vars_before' = variables
            /\ UNCHANGED <<success, filename>>
    /\ UNCHANGED <<variables, obj, reverted, forced_list_keys, path, variables_first, loop,
                   current_path, errors>>

\* Lines 387-391: parse_text returned to parse_file and parse_file to the
\* batch; a str is an error, anything else a success under the key of line
\* 390, which replaces what another file put under that key.
FileParsed ==
    /\ pc = "returned"
    /\ current_path \in DOMAIN path
    /\ IF result.kind = "text"
       THEN /\ errors' = Append(errors, FilePath(ThisDir, ThisFile.name))
            /\ UNCHANGED success
       ELSE /\ success' = success \cup {SuccessKey(ThisDir, ThisFile.name)}
            /\ UNCHANGED errors
    /\ pc' = "walk"
    /\ filename' = filename + 1
    /\ UNCHANGED <<variables, calls, text, return_text_on_error, line_number, heap, nodes,
                   local_variables, result, raised, vars_before, obj, reverted,
                   forced_list_keys, path, variables_first, loop, current_path, parsed>>

\* Line 371: os.walk yields the next directory.
NextDirectory ==
    /\ InWalk
    /\ ~Skipped(current_path)
    /\ filename > Len(path[current_path].files)
    /\ current_path' = current_path + 1
    /\ filename' = 1
    /\ UNCHANGED <<variables, pc, calls, text, return_text_on_error, line_number, heap,
                   nodes, local_variables, result, raised, vars_before, obj, reverted,
                   forced_list_keys, path, variables_first, loop, success, errors, parsed>>

\* Lines 370 and 392-393: the walk is over; with variables_first the second
\* pass begins.
NextLoop ==
    /\ pc = "walk"
    /\ current_path > Len(path)
    /\ loop = 0 /\ variables_first
    /\ loop' = 1
    /\ current_path' = 1
    /\ filename' = 1
    /\ UNCHANGED <<variables, pc, calls, text, return_text_on_error, line_number, heap,
                   nodes, local_variables, result, raised, vars_before, obj, reverted,
                   forced_list_keys, path, variables_first, success, errors, parsed>>

\* Lines 394-398: return success.
ParseAllFilesReturn ==
    /\ pc = "walk"
    /\ current_path > Len(path)
    /\ loop = 1 \/ ~variables_first
    /\ pc' = "batch_returned"
    /\ UNCHANGED <<variables, calls, text, return_text_on_error, line_number, heap, nodes,
                   local_variables, result, raised, vars_before, obj, reverted,
                   forced_list_keys, batch>>

NextBatch ==
    \/ LoadVariables
    \/ ParseAllFilesBegin(Trees) \/ SkipDirectory \/ SkipFile \/ ParseFile
    \/ ParseLine \/ ParseReturn \/ FileParsed \/ NextDirectory \/ NextLoop
    \/ ParseAllFilesReturn
SpecBatch == Init /\ [][NextBatch]_vars

Next ==
    \/ LoadVariables
    \/ ParseTextBegin(TextsOver(BlockLines)) \/ ParseLine \/ ParseReturn \/ NextCall
Spec == Init /\ [][Next]_vars

NextVariables ==
    \/ LoadVariables
    \/ ParseTextBegin(TextsOver(VariableLines)) \/ ParseLine \/ ParseReturn \/ NextCall
SpecVariables == Init /\ [][NextVariables]_vars

NextReferences ==
    \/ LoadVariables
    \/ ParseTextBegin(TextsOver(ReferenceLines)) \/ ParseLine \/ ParseReturn \/ NextCall
SpecReferences == Init /\ [][NextReferences]_vars

NextTable ==
    \/ LoadVariables
    \/ ParseTextBegin(TextsOver(TableLines)) \/ ParseLine \/ ParseReturn \/ NextCall
SpecTable == Init /\ [][NextTable]_vars

NextOperators ==
    \/ LoadVariables
    \/ ParseTextBegin(TextsOfWritten(OperatorLines)) \/ ParseLine \/ ParseReturn \/ NextCall
SpecOperators == Init /\ [][NextOperators]_vars

NextBrackets ==
    \/ LoadVariables
    \/ ParseTextBegin(TextsOfWritten(BracketLines)) \/ ParseLine \/ ParseReturn \/ NextCall
SpecBrackets == Init /\ [][NextBrackets]_vars

NextForced ==
    \/ LoadVariables
    \/ ParseTextBegin(TextsOver(ForcedLines)) \/ ParseLine \/ ParseReturn \/ NextCall
SpecForced == InitForced /\ [][NextForced]_vars

NextSpecial == Revert(SpecialDocuments) \/ NextCall
SpecSpecial == Init /\ [][NextSpecial]_vars

NextColor == Revert(ColorDocuments) \/ NextCall
SpecColor == Init /\ [][NextColor]_vars

\* Documents with deeper nesting: a List at the root, a Block and a List in a
\* List, Blocks under a repeated key, an OperatorValue over a List.
NestedDocuments ==
    {List(<<Block(<<Entry("k", Scalar(IntV(1)))>>), Scalar(IntV(2))>>),
     List(<<List(<<Block(<<>>)>>), Block(<<>>)>>),
     Block(<<Entry("a", Block(<<Entry("ks",
                List(<<Block(<<Entry("k", Block(<<>>))>>), Scalar(IntV(1))>>))>>))>>),
     Block(<<Entry("k", List(<<Block(<<Entry("b", Scalar(IntV(1)))>>), Block(<<>>)>>))>>),
     Block(<<Entry("k", OperatorValueOf(">",
                List(<<Scalar(StrV("bar")), Scalar(StrV("a b"))>>)))>>),
     Block(<<Entry("a", Block(<<Entry("k", OperatorValueOf(">=",
                Block(<<Entry("b", Block(<<>>))>>)))>>))>>)}
NextBalanced ==
    Revert(Documents \cup SpecialDocuments \cup ColorDocuments \cup NestedDocuments)
        \/ NextCall
SpecBalanced == Init /\ [][NextBalanced]_vars

NextLists == Revert(Documents) \/ NextCall
SpecLists == Init /\ [][NextLists]_vars

NextRevert ==
    \/ LoadVariables
    \/ RevertParseBegin(Documents) \/ ParseLine \/ ParseReturn \/ NextCall
SpecRevert == Init /\ [][NextRevert]_vars

(***************************************************************************)
(* What the properties below speak of.                                     *)
(***************************************************************************)
\* The last call returned root.
Succeeded == pc = "returned" /\ result.kind = "dict"
\* The last call returned None or the canonical text.
Failed == pc = "returned" /\ result.kind \in {"None", "text"}
\* A key OPERATOR value line whose value opens no block.
IsScalarLine(l) == l.kind = "kv" /\ ~EndsWithBrace(l.val)
\* Line j is read in the root Block: every line before it is a scalar line
\* that opens nothing.
InRoot(j) == \A i \in 1..(j - 1) : IsScalarLine(text[i]) /\ text[i].val # ""
IsScalarDoc(d) == d.t \notin {"dict", "list"}
\* A document that is the value v, or a reference or operator node whose
\* "@value" is v.
Carries(d, v) ==
    \/ IsScalarDoc(d) /\ PyEq(ValueOf(d), v)
    \/ Has(d, "@value") /\ IsScalarDoc(Item(d, "@value"))
         /\ PyEq(ValueOf(Item(d, "@value")), v)
\* v is still under key in the Block d: as its value or as an element of its List.
Holds(d, key, v) ==
    /\ Has(d, key)
    /\ \/ Carries(Item(d, key), v)
       \/ /\ Item(d, key).t = "list"
          /\ \E j \in DOMAIN Item(d, key).e : Carries(Item(d, key).e[j].v, v)
\* The Block {key: v}.
OneKey(key, v) == Block(<<Entry(key, v)>>)
\* The List of the scalars vals.
ScalarList(vals) == List([j \in DOMAIN vals |-> Scalar(vals[j])])
\* Lines that open a block, and close markers, among the first j lines.
Opens(j) ==
    Cardinality({i \in 1..j : text[i].kind = "{"
                                \/ (text[i].kind = "kv" /\ EndsWithBrace(text[i].val))})
Closes(j) == Cardinality({i \in 1..j : text[i].kind = "}"})

\* A List of one element under a key stands for the element: revert writes
\* both as one occurrence of the key.
Unwrap(d) == IF d.t = "list" /\ Len(d.e) = 1 THEN d.e[1].v ELSE d
\* Structural equality of two documents, up to that representation.
RECURSIVE SameDocument(_, _)
SameDocument(a, b) ==
    CASE a.t = "dict" ->
            /\ b.t = "dict"
            /\ Len(a.e) = Len(b.e)
            /\ \A j \in DOMAIN a.e :
                  /\ Has(b, a.e[j].k)
                  /\ SameDocument(Unwrap(a.e[j].v), Unwrap(Item(b, a.e[j].k)))
      [] a.t = "list" ->
            /\ b.t = "list"
            /\ Len(a.e) = Len(b.e)
            /\ \A j \in DOMAIN a.e : SameDocument(a.e[j].v, b.e[j].v)
      [] OTHER -> IsScalarDoc(b) /\ PyEq(ValueOf(a), ValueOf(b))

(***************************************************************************)
(* C1: round trip: for every document D of scalars, Blocks and Lists,      *)
(* parse_text(revert(D)) succeeds and is structurally equal to D, up to a  *)
(* List under a key being written as repeated occurrences of the key.      *)
(***************************************************************************)
C1_RoundTrip ==
    (obj # NoDocument /\ pc = "returned")
        => (Succeeded /\ SameDocument(obj, result.doc))

(***************************************************************************)
(* C2: duplicate keys are never silently overwritten: after a successful   *)
(* parse, the value a scalar line bound to a key of the root Block that    *)
(* another line (scalar, block-opening or list) binds too is still under   *)
(* that key.                                                               *)
(***************************************************************************)
C2_DuplicateKeysKept ==
    Succeeded =>
        \A j \in DOMAIN text :
            (/\ InRoot(j) /\ IsScalarLine(text[j]) /\ ~ConvertRaises(text[j].val)
             /\ \E i \in DOMAIN text :
                    i # j /\ InRoot(i) /\ text[i].kind = "kv" /\ text[i].key = text[j].key)
            => Holds(result.doc, text[j].key, ConvertValue(text[j].val))

(***************************************************************************)
(* C4: duplicate coercion: a file of n >= 2 lines k = v1 .. k = vn with    *)
(* pairwise different scalar values (none of them a variable name) parses  *)
(* to {k: [v1, .., vn]}.                                                   *)
(***************************************************************************)
SameKeyScalars ==
    /\ Len(text) >= 2
    /\ \A j \in DOMAIN text :
          /\ IsScalarLine(text[j]) /\ text[j].op = "=" /\ text[j].key = text[1].key
          /\ ~ConvertRaises(text[j].val) /\ ~IsFormula(text[j].val)
          /\ ~StartsWithAt(text[j].val) /\ ~VarHas(vars_before, text[j].val)
C4_DuplicateCoercion ==
    (Succeeded /\ SameKeyScalars
        /\ \A i, j \in DOMAIN text : i # j => ConvertValue(text[i].val) # ConvertValue(text[j].val))
    => result.doc = OneKey(text[1].key,
                           ScalarList([j \in DOMAIN text |-> ConvertValue(text[j].val)]))

(***************************************************************************)
(* C5: identical-duplicate collapse: when the lines of the root Block that *)
(* bind a key k are n >= 2 lines k = v with one and the same scalar value  *)
(* (not a variable name), k is bound to the scalar v and not to a List,    *)
(* whatever scalar lines bind other keys in between.                       *)
(***************************************************************************)
\* The lines of the file that bind key.
LinesOf(key) == {j \in DOMAIN text : text[j].kind = "kv" /\ text[j].key = key}
\* Every line of the file is a scalar line of the root Block, and the ones
\* that bind key are two or more lines key = v with the same scalar v.
SameValueRepeated(key) ==
    /\ \A j \in DOMAIN text : IsScalarLine(text[j]) /\ text[j].val # ""
    /\ Cardinality(LinesOf(key)) >= 2
    /\ \A i, j \in LinesOf(key) : text[i] = text[j]
    /\ \A j \in LinesOf(key) :
          /\ text[j].op = "=" /\ ~ConvertRaises(text[j].val) /\ ~IsFormula(text[j].val)
          /\ ~StartsWithAt(text[j].val) /\ ~VarHas(variables, text[j].val)
C5_IdenticalDuplicateCollapse ==
    \A j \in DOMAIN text :
        (Succeeded /\ SameValueRepeated(text[j].key))
        => /\ Has(result.doc, text[j].key)
           /\ Item(result.doc, text[j].key) = Scalar(ConvertValue(text[j].val))
C5_Witness ==
    /\ Succeeded /\ SameValueRepeated("a") /\ Len(text) = MaxLines
    /\ \E j \in DOMAIN text : text[j].key # "a"
    /\ Item(result.doc, "a") = Scalar(IntV(1))

(***************************************************************************)
(* C7: a close marker with no matching open makes the parse fail: a parse  *)
(* that returns a document read no prefix with more closes than opens.     *)
(***************************************************************************)
C7_UnmatchedCloseFails ==
    Succeeded => \A j \in DOMAIN text : Closes(j) <= Opens(j)

(***************************************************************************)
(* C3: no value is lost: after a successful parse every key OPERATOR value *)
(* line read in the root Block whose key was new there has left its key    *)
(* bound in the Block, whatever the variable table held.                   *)
(***************************************************************************)
C3_NoValueLost ==
    Succeeded =>
        \A j \in DOMAIN text :
            (/\ InRoot(j) /\ IsScalarLine(text[j])
             /\ \A i \in 1..(j - 1) : text[i].key # text[j].key)
            => Has(result.doc, text[j].key)

(***************************************************************************)
(* C6: failure semantics: when a line raises, parse_text returns None, or  *)
(* the canonical text if return_text_on_error is set, and the exception    *)
(* does not reach the caller.                                              *)
(***************************************************************************)
C6_FailureSemantics ==
    raised =>
        /\ pc = "returned"
        /\ result.kind = (IF return_text_on_error THEN "text" ELSE "None")

(***************************************************************************)
(* C8: malformed input isolation: after a parse that failed, the variable  *)
(* table is the table as it was before that file was parsed.               *)
(***************************************************************************)
C8_FailedFileLeavesTable == Failed => variables = vars_before

(***************************************************************************)
(* C9: formula resolution: after a successful parse, a line @x = @[e] of   *)
(* the root Block whose formula evaluated to a number n has registered     *)
(* x -> n in the variable table (no other line of the file names x).       *)
(***************************************************************************)
C9_FormulaRegisters ==
    Succeeded =>
        \A j \in DOMAIN text :
            (/\ InRoot(j) /\ text[j].kind = "kv" /\ text[j].op = "="
             /\ IsFormula(text[j].val) /\ text[j].key \in DOMAIN AtTexts
             /\ \A i \in DOMAIN text : i # j => LStripAt(text[i].key) # LStripAt(text[j].key)
             /\ Has(result.doc, text[j].key)
             /\ Has(Item(result.doc, text[j].key), "@result")
             /\ IsNumber(Item(Item(result.doc, text[j].key), "@result")))
            => Scalar(VarGet(variables, LStripAt(text[j].key)))
                  = Item(Item(result.doc, text[j].key), "@result")

(***************************************************************************)
(* C10: only lines whose key starts with @ populate the variable table: a  *)
(* step that reads a line whose key does not start with @ leaves the table *)
(* unchanged.                                                              *)
(***************************************************************************)
C10_OnlyAtKeysRegister ==
    [][(pc = "loop" /\ line_number <= Len(text)
          /\ ~StartsWithAt(text[line_number].key))
       => variables' = variables]_vars

(***************************************************************************)
(* What the properties of single lines speak of: the step that reads the   *)
(* line the loop is at.                                                    *)
(***************************************************************************)
\* The loop is at a key OPERATOR value line, in a node that is a Block.
ReadsKeyValue ==
    /\ pc = "loop" /\ line_number <= Len(text)
    /\ text[line_number].kind = "kv"
    /\ nodes # <<>> /\ heap[TopFrame([nodes |-> nodes]).id].t = "dict"
ThisLine == text[line_number]
\* The line was read without an exception.
ReadOn == raised' = FALSE /\ pc' = "loop" /\ line_number' = line_number + 1
\* The node the line was read in, as it is after the step.
NodeAfter == Deref(heap', RefV(TopFrame([nodes |-> nodes]).id))
\* What the line left under its key: the value of the key, or the last
\* element when the key holds a List.
LeftUnder(d, key) ==
    IF Item(d, key).t = "list" THEN Item(d, key).e[Len(Item(d, key).e)].v ELSE Item(d, key)
\* d is the reference {"@type": type, "@value": raw, "@result": res}.
IsTypedRef(d, type, raw, res) ==
    /\ Has(d, "@type") /\ Has(d, "@value") /\ Has(d, "@result")
    /\ Item(d, "@type") = Scalar(StrV(type))
    /\ Item(d, "@value") = Scalar(StrV(raw))
    /\ Item(d, "@result") = Scalar(res)
\* A value text that is a scalar literal: no formula, no reference, no
\* name of a variable, not empty.
IsLiteralText(x) ==
    /\ x # "" /\ ~EndsWithBrace(x) /\ ~ConvertRaises(x)
    /\ ~IsFormula(x) /\ ~StartsWithAt(x) /\ ~VarHas(variables, x)
\* A value text that is a variable reference: @name, or a name of the table.
IsReferenceText(x) == (StartsWithAt(x) /\ ~IsFormula(x)) \/ VarHas(variables, x)

(***************************************************************************)
(* C11: every line read in a Block whose key starts with @ and whose value *)
(* is a non-empty scalar literal registers key-without-@ -> value in the   *)
(* variable table, for every scalar value and whether or not the key       *)
(* already occurs in the Block.                                            *)
(***************************************************************************)
C11_AtKeyRegisters ==
    [][(ReadsKeyValue /\ ThisLine.op = "=" /\ StartsWithAt(ThisLine.key)
          /\ IsLiteralText(ThisLine.val) /\ ReadOn)
       => /\ VarHas(variables', LStripAt(ThisLine.key))
          /\ VarGet(variables', LStripAt(ThisLine.key)) = ConvertValue(ThisLine.val)]_vars

(***************************************************************************)
(* C12: a line that assigns a variable reference that resolves (@y = @x,   *)
(* or @y = x with x in the table) to a key that starts with @ and is new   *)
(* in its Block registers y -> the resolved value of x.                    *)
(***************************************************************************)
C12_ReferenceRegisters ==
    [][(ReadsKeyValue /\ ThisLine.op = "=" /\ StartsWithAt(ThisLine.key)
          /\ IsReferenceText(ThisLine.val)
          /\ VarHas(variables, LStripAt(ThisLine.val))
          /\ ~KeyIn(heap[TopFrame([nodes |-> nodes]).id], ThisLine.key)
          /\ ReadOn)
       => /\ VarHas(variables', LStripAt(ThisLine.key))
          /\ VarGet(variables', LStripAt(ThisLine.key))
                = VarGet(variables, LStripAt(ThisLine.val))]_vars

(***************************************************************************)
(* C13: the variable table is never reset by parsing: no step, in any file *)
(* of the process (a load of the saved table between two files is no       *)
(* parse), removes an entry, and an entry changes its value only           *)
(* in a step that reads a line whose key is that name; a reference or a    *)
(* formula under a key that is new in its Block resolves against the table *)
(* as it then is, entries of earlier files included.                       *)
(***************************************************************************)
KeyIsNew == ~KeyIn(heap[TopFrame([nodes |-> nodes]).id], ThisLine.key)
C13_TableKept ==
    [][/\ \A j \in DOMAIN variables :
             pc # "ready" =>
             /\ VarHas(variables', variables[j].k)
             /\ VarGet(variables', variables[j].k) # variables[j].v
                   => /\ pc = "loop" /\ line_number <= Len(text)
                      /\ text[line_number].kind = "kv"
                      /\ LStripAt(text[line_number].key) = variables[j].k
       /\ (ReadsKeyValue /\ ThisLine.op = "=" /\ KeyIsNew /\ ReadOn
              /\ StartsWithAt(ThisLine.val))
           => IF IsFormula(ThisLine.val)
              THEN \E half_up \in BOOLEAN :
                      IsTypedRef(Item(NodeAfter, ThisLine.key), "formula", ThisLine.val,
                                 EvalFormula(FormulaBody(ThisLine.val), variables, half_up).v)
              ELSE IsTypedRef(Item(NodeAfter, ThisLine.key), "variable", ThisLine.val,
                              VarGet(variables, LStripAt(ThisLine.val)))]_vars
(***************************************************************************)
(* C14: resolving a variable reference is a pure lookup: a line k = @name  *)
(* read in a Block is read without an error, leaves the variable table     *)
(* unchanged and stores under k a VariableRef whose result is the table's  *)
(* value for name, None when name is unknown.                              *)
(***************************************************************************)
C14_ReferenceIsLookup ==
    [][(ReadsKeyValue /\ ThisLine.op = "=" /\ StartsWithAt(ThisLine.val)
          /\ ~IsFormula(ThisLine.val))
       => /\ ReadOn
          /\ variables' = variables
          /\ Has(NodeAfter, ThisLine.key)
          /\ IsTypedRef(LeftUnder(NodeAfter, ThisLine.key), "variable", ThisLine.val,
                        VarGet(variables, LStripAt(ThisLine.val)))]_vars

(***************************************************************************)
(* C15: a formula that cannot be evaluated never aborts the file: the line *)
(* is read without an error, it is stored as a FormulaRef with result None *)
(* (under an operator, as the value of the OperatorValue), and nothing is  *)
(* registered in the variable table.                                       *)
(***************************************************************************)
\* eval of the formula raises, or the formula leaves parse_text by exit().
CannotEvaluate(x) ==
    \A half_up \in BOOLEAN :
        \/ EvalFormula(FormulaBody(x), variables, half_up).st # "ok"
        \/ EvalFormula(FormulaBody(x), variables, half_up).v = NoneV
C15_FormulaFailureContained ==
    [][(ReadsKeyValue /\ IsFormula(ThisLine.val) /\ CannotEvaluate(ThisLine.val))
       => /\ ReadOn
          /\ variables' = variables
          /\ Has(NodeAfter, ThisLine.key)
          /\ LET left == LeftUnder(NodeAfter, ThisLine.key)
             IN  IsTypedRef(IF Has(left, "@operator") THEN Item(left, "@value") ELSE left,
                            "formula", ThisLine.val, NoneV)]_vars

(***************************************************************************)
(* C16: every key OPERATOR value line whose operator is not "=" stores its *)
(* value wrapped in an OperatorValue that carries the operator, for scalar *)
(* values and for values that open a block, and whether or not the key     *)
(* already occurs in the Block.                                            *)
(***************************************************************************)
C16_OperatorKept ==
    [][(ReadsKeyValue /\ ThisLine.op # "=" /\ raised' = FALSE)
       => /\ Has(NodeAfter, ThisLine.key)
          /\ Has(LeftUnder(NodeAfter, ThisLine.key), "@operator")
          /\ Item(LeftUnder(NodeAfter, ThisLine.key), "@operator")
                = Scalar(StrV(ThisLine.op))]_vars

(***************************************************************************)
(* C17: forced-list keys.                                                  *)
(***************************************************************************)
\* In every Block of d, a key of the allow-list is bound to a List.
RECURSIVE ForcedAreLists(_)
ForcedAreLists(d) ==
    CASE d.t = "dict" ->
            \A j \in DOMAIN d.e :
                /\ Lower(d.e[j].k) \in forced_list_keys => d.e[j].v.t = "list"
                /\ ForcedAreLists(d.e[j].v)
      [] d.t = "list" -> \A j \in DOMAIN d.e : ForcedAreLists(d.e[j].v)
      [] OTHER -> TRUE

\* C17: after a successful parse, every key that is in the forced-list
\* allow-list, compared case-insensitively, is bound to a List in its Block,
\* whether it occurs once or more often and whether its value is a scalar or a
\* block.
C17_ForcedKeyIsList == Succeeded => ForcedAreLists(result.doc)

\* A block under the key a and, in it, a scalar under the key A, each once in
\* its Block: both are bound to a List of one element.
C17_Witness ==
    /\ Succeeded
    /\ forced_list_keys = {"a"}
    /\ text = <<KV("a", "=", "{"), KV("A", "=", "2"), CloseLine>>
    /\ result.doc = Block(<<[k |-> "a", v |-> List(<<Block(<<[k |-> "A", v |-> List(<<Scalar(IntV(2))>>)]>>)>>)]>>)

(***************************************************************************)
(* C18: revert and exceptions.                                             *)
(***************************************************************************)
\* C18: revert never raises, whatever structured document it is given:
\* special objects at the root, in a list or with an empty block as value,
\* and keys that start with "&", included.
C18_RevertNeverRaises == pc # "revert_raised"

(***************************************************************************)
(* C19: special objects are written as they were read.                     *)
(***************************************************************************)
\* d with every @result of a reference set to None.
RECURSIVE WithoutResults(_)
WithoutResults(d) ==
    IF d.t \notin {"dict", "list"} THEN d
    ELSE [d EXCEPT !.e =
            [j \in DOMAIN d.e |->
                IF d.t = "dict" /\ Has(d, "@type") /\ d.e[j].k = "@result"
                THEN Entry("@result", Scalar(NoneV))
                ELSE Entry(d.e[j].k, WithoutResults(d.e[j].v))]]
IsRef(d) == Has(d, "@type")
IsOperatorValue(d) == Has(d, "@operator")
RawText(d) == Item(d, "@value").s
\* The line `key OPERATOR value` or `key = raw text` of the special object d
\* under key; a Block or a List as value begins on that line.
SpecialLine(key, d) ==
    IF IsRef(d) THEN KV(key, "=", RawText(d))
    ELSE LET operator == Item(d, "@operator").s
             value == Item(d, "@value")
         IN  IF IsRef(value) THEN KV(key, operator, RawText(value))
             ELSE IF value.t \in {"dict", "list"} THEN KV(key, operator, "{")
             ELSE KV(key, operator, revert_value(value, NoneKey, NoneKey).txt)
\* The special object d is a scalar, or a reference, under an operator or not.
OnOneLine(d) ==
    IsRef(d) \/ Item(d, "@value").t \notin {"dict", "list"} \/ IsRef(Item(d, "@value"))

\* C19: revert writes an OperatorValue under a key as `key OPERATOR value`
\* and a VariableRef or FormulaRef as `key = raw text`, with the operator in
\* place of the "=" when the reference is the value of an OperatorValue; a
\* Block or a List as value of an OperatorValue opens on that line and
\* closes with "}"; a special object that is an element of the List under a
\* key is written with that key, whether a list rule matches the key or
\* not.  The resolved result is never written: the text is that of the
\* document with every @result absent.
C19_SpecialsWrittenRaw ==
    pc = "reverted" =>
        /\ reverted = revert(WithoutResults(obj), NoneKey, NoneKey, -1).lines
        /\ \A key \in {"k", "ks", "&1"}, d \in SpecialDocs :
              /\ obj = Block(<<Entry(key, d)>>) =>
                    /\ reverted[1] = Indented(0, SpecialLine(key, d))
                    /\ IF OnOneLine(d) THEN Len(reverted) = 1
                       ELSE reverted[Len(reverted)] = Indented(0, CloseLine)
              /\ obj = Block(<<Entry("a", Block(<<Entry(key, d)>>))>>) =>
                    reverted[2] = Indented(1, SpecialLine(key, d))
        /\ \A key \in {"k", "ks"}, d \in SpecialDocs :
              obj = Block(<<Entry(key, List(<<d>>))>>) =>
                 \E j \in DOMAIN reverted : reverted[j].line = SpecialLine(key, d)

(***************************************************************************)
(* C20: the color form of a List.                                          *)
(***************************************************************************)
\* The line `key TYPE = {`.
ColorOpen(key, tag) == KV(ReplacePipe(key) \o " " \o tag, "=", "{")
\* The elements of d after the first, one on a line, one level deeper.
RemainingElements(d) ==
    [j \in 1..(Len(d.e) - 1) |->
        Indented(1, ItemsLine(<<revert_value(d.e[j + 1].v, NoneKey, NoneKey).txt>>))]

\* C20: revert of a List under a key whose first element is one of rgb, hsv,
\* hls, hsv360 and that has more than 3 elements writes `key TYPE = {`, the
\* remaining elements and `}`, the tag not repeated inside; with 3 elements or
\* fewer, or another first element, no line of the text opens a color, and
\* the tag is written as an element.
C20_ColorTuple ==
    pc = "reverted" =>
        \A key \in {"k", "color", "a|b"}, d \in TaggedLists :
            obj = Block(<<Entry(key, d)>>) =>
                LET tag == d.e[1].v.s
                IN  IF tag \in {"rgb", "hsv", "hls", "hsv360"} /\ Len(d.e) > 3
                    THEN reverted = <<Indented(0, ColorOpen(key, tag))>>
                                        \o RemainingElements(d)
                                        \o <<Indented(0, CloseLine)>>
                    ELSE /\ \A j \in DOMAIN reverted : reverted[j].line # ColorOpen(key, tag)
                         /\ \E j \in DOMAIN reverted :
                               \/ reverted[j].line = KV(ReplacePipe(key), "=", tag)
                               \/ reverted[j].line = ItemsLine(<<tag>>)

\* {"color": ["rgb", 1, 2, 1]} is written `color rgb = {`, 1, 2, 1, `}`.
C20_Witness ==
    /\ pc = "reverted"
    /\ obj = Block(<<Entry("color", List(<<Scalar(StrV("rgb")), Scalar(IntV(1)),
                                           Scalar(IntV(2)), Scalar(IntV(1))>>))>>)
    /\ reverted = <<Indented(0, KV("color rgb", "=", "{")),
                    Indented(1, ItemsLine(<<"1">>)), Indented(1, ItemsLine(<<"2">>)),
                    Indented(1, ItemsLine(<<"1">>)), Indented(0, CloseLine)>>

(***************************************************************************)
(* C21: a List as repeated keys or as one block.                           *)
(***************************************************************************)
\* The entry `key = value` of the element d at the given depth: one line
\* for a scalar, `key = {` and `}` for an empty Block.
EntryLines(key, d, depth) ==
    IF d.t = "dict"
    THEN <<Indented(depth, KV(key, "=", "{")), Indented(depth, CloseLine)>>
    ELSE <<Indented(depth, KV(key, "=", revert_value(d, NoneKey, NoneKey).txt))>>
\* The element d written without a key at the given depth.
ElementLines(d, depth) ==
    IF d.t = "dict"
    THEN <<Indented(depth, BraceLine), Indented(depth, CloseLine)>>
    ELSE <<Indented(depth, ItemsLine(<<revert_value(d, NoneKey, NoneKey).txt>>))>>
RECURSIVE EachEntry(_, _, _)
EachEntry(key, entries, depth) ==
    IF entries = <<>> THEN <<>>
    ELSE EntryLines(key, Head(entries).v, depth) \o EachEntry(key, Tail(entries), depth)
RECURSIVE EachElement(_, _)
EachElement(entries, depth) ==
    IF entries = <<>> THEN <<>>
    ELSE ElementLines(Head(entries).v, depth) \o EachElement(Tail(entries), depth)

\* C21: revert of a List under a key that no list rule matches writes one
\* `key = value` entry per element, in order, at the depth of the key and
\* without brackets around them; under a key that a rule matches it writes
\* one block `key = {` ... `}` that holds every element, in order.
C21_RepeatedKeyOrBlock ==
    pc = "reverted" =>
        \A d \in DocLists :
            /\ obj = Block(<<Entry("k", d)>>) => reverted = EachEntry("k", d.e, 0)
            /\ obj = Block(<<Entry("ks", d)>>) =>
                  reverted = <<Indented(0, KV("ks", "=", "{"))>> \o EachElement(d.e, 1)
                                \o <<Indented(0, CloseLine)>>

(***************************************************************************)
(* C22-C24: parse_all_files.                                               *)
(***************************************************************************)
\* The .txt files under the directory: the directory and the file, by their
\* places in the walk.
TxtFiles ==
    {p \in UNION {{<<d, f>> : f \in DOMAIN path[d].files} : d \in DOMAIN path} :
        IsTxt(path[p[1]].files[p[2]].name)}
TextOf(p) == path[p[1]].files[p[2]].text
PathOf(p) == FilePath(path[p[1]], path[p[1]].files[p[2]].name)
KeyOf(p) == SuccessKey(path[p[1]], path[p[1]].files[p[2]].name)
Range(seq) == {seq[j] : j \in DOMAIN seq}
\* How often parse_file was called with the path of p.
TimesParsed(p) == Cardinality({j \in DOMAIN parsed : parsed[j] = PathOf(p)})

\* C22: a file whose parse fails does not stop the batch: the batch is not
\* left before its end, and when it returns every .txt file was parsed, the
\* path of every failing file is in the error list and no file of the error
\* list has an entry in the success mapping.
C22_FailureDoesNotStopBatch ==
    /\ pc # "exited"
    /\ pc = "batch_returned" =>
          /\ \A p \in TxtFiles : PathOf(p) \in Range(parsed)
          /\ \A p \in TxtFiles : TextOf(p) = FailText => PathOf(p) \in Range(errors)
          /\ \A p \in TxtFiles : PathOf(p) \in Range(errors) => KeyOf(p) \notin success

\* C23: a batch calls parse_file exactly once for every .txt file under the
\* directory, with variables_first on as well as off: never twice, and once
\* when the batch returns.
C23_EachFileOnce ==
    /\ \A p \in TxtFiles : TimesParsed(p) <= 1
    /\ pc = "batch_returned" => \A p \in TxtFiles : TimesParsed(p) = 1

\* The file the walk is at is being parsed and lies in no script_values
\* directory.
ParsingOther == pc = "loop" /\ ~EndsWithScriptValues(path[current_path])
\* C24: with variables_first set, when a file of another directory is
\* parsed, every .txt file of every script_values directory has been parsed
\* before, and the name a script_values file registers is in the table.
C24_VariablesFirst ==
    (variables_first /\ path # <<>> /\ ParsingOther) =>
        \A p \in TxtFiles :
            EndsWithScriptValues(path[p[1]]) =>
                /\ \E j \in 1..(Len(parsed) - 1) : parsed[j] = PathOf(p)
                /\ TextOf(p) = RegisterText => VarHas(variables, "x")

\* The file of the root refers to x while the script_values directory, which
\* the walk yields after it, registered x -> 1.
C24_Witness ==
    /\ variables_first
    /\ pc = "batch_returned"
    /\ path = <<[root |-> "mod", sub |-> "", files |-> <<File(ATxt, ReferText)>>],
                [root |-> "mod", sub |-> "script_values",
                 files |-> <<File(ATxt, RegisterText)>>]>>
    /\ parsed[1] = "mod/script_values/a.txt"
    /\ success = {"a", "script_values/a"}
    /\ VarGet(variables, "x") = IntV(1)

(***************************************************************************)
(* C25: the frame stack.                                                   *)
(***************************************************************************)
\* An operator line with an empty value: its block opens on the next line.
OpensBelow(line) == line.kind = "kv" /\ line.val = "" /\ line.op # "="
\* Line j of lines opens a block: a key with "{", an operator line whose
\* "{" follows, or a bare "{" that is not the "{" of such an operator line.
OpensBlock(lines, j) ==
    \/ lines[j].kind = "kv" /\ EndsWithBrace(lines[j].val)
    \/ OpensBelow(lines[j])
    \/ lines[j].kind = "{" /\ ~(j > 1 /\ OpensBelow(lines[j - 1]))
\* The blocks opened and not yet closed after the first n lines.
OpenBlocks(lines, n) ==
    Cardinality({j \in 1..n : OpensBlock(lines, j)})
        - Cardinality({j \in 1..n : lines[j].kind = "}"})

\* C25: while a parse has not failed, the frame stack is not empty, its
\* bottom frame is ("", root) and its depth is 1 plus the number of blocks
\* opened and not yet closed.
C25_FrameStack ==
    (pc = "loop" /\ ~raised) =>
        /\ nodes # <<>>
        /\ nodes[1] = Frame("", 1)
        /\ Len(nodes) = 1 + OpenBlocks(text, line_number - 1)

(***************************************************************************)
(* C26: a bare list line in a Block.                                       *)
(***************************************************************************)
\* A list line is read in a Block that has a parent.
ReadsListInBlock ==
    /\ pc = "loop" /\ line_number <= Len(text)
    /\ text[line_number].kind = "items"
    /\ Len(nodes) >= 2 /\ heap[nodes[Len(nodes)].id].t = "dict"
\* The comment marker of the Block, if its key starts with the comment sigil.
MarkerOf(c) ==
    IF c.e # <<>> /\ StartsWithAmp(c.e[1].k)
    THEN <<Scalar(StrV("&" \o StrOf(Deref(heap, c.e[1].v)) \o "&"))>>
    ELSE <<>>
ItemDoc(x) == Scalar(IF LiteralEval(x).ok THEN LiteralEval(x).v ELSE StrV(x))
\* The List the line leaves: the marker, then the items of the line.
CoercedList ==
    List(MarkerOf(heap[nodes[Len(nodes)].id])
            \o [j \in DOMAIN ThisLine.items |-> ItemDoc(ThisLine.items[j])])
\* The container as its parent holds it after the step.
HeldByParent ==
    LET parent == Deref(heap', RefV(nodes[Len(nodes) - 1].id))
        name == nodes[Len(nodes)].name
    IN  IF parent.t = "dict" THEN Item(parent, name) ELSE parent.e[Len(parent.e)].v

\* C26: a bare list line read while the current container is a Block
\* replaces the Block in its parent by a List, which holds the comment
\* marker if the key of the Block starts with the comment sigil and is empty
\* otherwise, and appends the items of the line to it, whatever the Block
\* holds and whatever its key is.
C26_BareListCoercion ==
    [][ReadsListInBlock =>
            /\ ReadOn
            /\ Len(nodes') = Len(nodes)
            /\ Deref(heap', RefV(nodes'[Len(nodes')].id)) = CoercedList
            /\ HeldByParent = CoercedList]_vars

(***************************************************************************)
(* C27: the same text parsed twice in a row.                               *)
(***************************************************************************)
\* How the formulas of the lines can round a result that lies midway.
Halves(lines) ==
    {h \in [DOMAIN lines -> BOOLEAN] :
        \A j \in DOMAIN lines : h[j] => lines[j].kind = "kv" /\ IsFormula(lines[j].val)}
\* The same text parsed again, with the table as the first parse left it,
\* returns the document the first parse returned.
SameAgain ==
    \E h \in Halves(text) :
        LET again == parse_text(text, variables, h)
        IN  again.st = "ok" /\ again.doc = result.doc

\* C27: parsing the same text twice in a row returns structurally equal
\* documents: what the first parse registered does not change how the
\* second parse reads the same lines.
C27_SameTextTwice ==
    Succeeded => SameAgain

\* The names in a formula body: its operands that are identifiers.
BodyNames(body) ==
    IF body \in DOMAIN ExprOf
    THEN {ExprOf[body].l, ExprOf[body].r} \cap Names
    ELSE {n \in Names : body = n \o "*"}
\* The names in the string a table binds name to: the substitution loop
\* (lines 205-206) writes that string into the formula, and eval looks up
\* the names it holds.
StringNames(table, name) ==
    IF VarGet(table, name).t = "str"
    THEN {WordsOf(VarGet(table, name).s)[j] : j \in DOMAIN WordsOf(VarGet(table, name).s)}
             \cap Names
    ELSE {}
\* The names reached from those of names through the strings that one of
\* the two tables binds them to.
RECURSIVE Reached(_, _, _)
Reached(names, before, after) ==
    LET more == names \cup UNION {StringNames(before, n) \cup StringNames(after, n) : n \in names}
    IN  IF more = names THEN names ELSE Reached(more, before, after)
\* The names the value of a line mentions: the name of a reference @name
\* (lines 195-199 and 222-226), the word that is looked up as a name, bare
\* or between quotes (lines 195 and 228, after literal_eval took the quotes
\* off), the names of a formula (lines 181-184 and 205-208) with those they
\* are bound to by name, and the name of an @name item (lines 290-295).
Mentioned(line, before, after) ==
    IF line.kind = "items"
    THEN {LStripAt(line.items[j]) : j \in {i \in DOMAIN line.items : StartsWithAt(line.items[i])}}
    ELSE IF line.kind # "kv" \/ EndsWithBrace(line.val) \/ ConvertRaises(line.val) THEN {}
    ELSE LET value == ConvertValue(line.val)
         IN  IF value.t # "str" THEN {}
             ELSE IF IsFormula(value.s)
             THEN Reached(BodyNames(FormulaBody(value.s)), before, after)
             ELSE IF StartsWithAt(value.s) THEN {LStripAt(value.s)}
             ELSE {value.s}
\* What the table holds for name: its value, or that it has none.
EntryOf(table, name) == [has |-> VarHas(table, name), v |-> VarGet(table, name)]
\* The table when the first parse came to line j.
TableAt(j, h) == parse_text(SubSeq(text, 1, j - 1), vars_before, h).vars
\* Every name a line mentions had, when the first parse came to that line,
\* the entry it has now that the parse has returned.
ReadAsReturned(h) ==
    \A j \in DOMAIN text :
        \A name \in Mentioned(text[j], TableAt(j, h), variables) :
            EntryOf(TableAt(j, h), name) = EntryOf(variables, name)
\* The parse that returned rounded as h says.
RoundedAs(h) ==
    LET first == parse_text(text, vars_before, h)
    IN  first.st = "ok" /\ first.doc = result.doc /\ first.vars = variables

\* C27 (amended): parsing the same text twice in a row returns structurally
\* equal documents when every name that the value of a line mentions (as a
\* reference @name, as a word that is looked up as a name, bare or quoted,
\* as a name of a formula or a name such a name is bound to, as an @name
\* item) had, when the first parse came to that line, the entry it has when
\* the first parse returns: no line reads a name that the same line or a
\* later line of the text registers, changes or removes.  A text that
\* registers a name and then reads it is parsed to the same document twice.
C27_SameTextTwiceUnlessRead ==
    Succeeded =>
        \A h \in Halves(text) : (RoundedAs(h) /\ ReadAsReturned(h)) => SameAgain

\* The text registers x -> 2 and then reads it, by reference and in a
\* formula: a second parse of the text returns the same document.
C27_Witness ==
    /\ Succeeded
    /\ text = <<KV("@x", "=", "2"), KV("@y", "=", "@x"), KV("k", "=", Formula("x+1"))>>
    /\ vars_before = <<>>
    /\ VarGet(variables, "x") = IntV(2)
    /\ IsTypedRef(Item(result.doc, "@y"), "variable", "@x", IntV(2))
    /\ IsTypedRef(Item(result.doc, "k"), "formula", Formula("x+1"), IntV(3))
    /\ \A h \in Halves(text) : RoundedAs(h) => ReadAsReturned(h)
    /\ SameAgain

(***************************************************************************)
(* C28: a VariableRef is resolved when its line is parsed.                 *)
(***************************************************************************)
\* The container is {"@type": "variable", "@value": raw, "@result": result}.
IsVariableRef(c) ==
    /\ c.t = "dict" /\ Len(c.e) = 3
    /\ c.e[1] = Entry("@type", StrV("variable"))
    /\ c.e[2].k = "@value" /\ c.e[3].k = "@result"
\* No line before the current one has the name as its key without @, and the
\* call began without the name.
NotYetRegistered(name) ==
    /\ ~VarHas(vars_before, name)
    /\ \A j \in 1..(line_number - 1) :
          text[j].kind = "kv" => LStripAt(text[j].key) # name

\* C28: a VariableRef's resolved value is the table's value at the moment its
\* line is parsed: every VariableRef a step stores has as @result the value
\* the table had for its name when the step began (None when the name was
\* absent); a reference to a name that no earlier line and no earlier call
\* registered is stored with @result None; no later line changes a VariableRef
\* already stored, whatever it registers; and the returned document is the
\* root as the last line left it.
C28_ResolvedWhenRead ==
    [][/\ \A i \in DOMAIN heap' \ DOMAIN heap :
             IsVariableRef(heap'[i])
                => heap'[i].e[3].v = VarGet(variables, LStripAt(heap'[i].e[2].v.s))
       /\ (pc = "loop" /\ line_number <= Len(text) /\ ReadOn)
             => \A i \in DOMAIN heap :
                   IsVariableRef(heap[i]) => i \in DOMAIN heap' /\ heap'[i] = heap[i]
       /\ (ReadsKeyValue /\ ThisLine.op = "=" /\ KeyIsNew /\ ReadOn
              /\ StartsWithAt(ThisLine.val) /\ ~IsFormula(ThisLine.val)
              /\ NotYetRegistered(LStripAt(ThisLine.val)))
             => IsTypedRef(Item(NodeAfter, ThisLine.key), "variable", ThisLine.val, NoneV)
       /\ (pc = "loop" /\ pc' = "returned" /\ result'.kind = "dict")
             => result'.doc = Deref(heap, RefV(1))]_vars

\* k = @x was read before @x = 2 registered x: the returned document holds the
\* reference with @result None, and the table holds x.
C28_Witness ==
    /\ Succeeded
    /\ text = <<KV("k", "=", "@x"), KV("@x", "=", "2")>>
    /\ vars_before = <<>>
    /\ VarGet(variables, "x") = IntV(2)
    /\ IsTypedRef(Item(result.doc, "k"), "variable", "@x", NoneV)

(***************************************************************************)
(* C29: the names of the variable table only grow.                         *)
(***************************************************************************)
\* The names the table holds.
RegisteredNames(table) == {table[j].k : j \in DOMAIN table}
\* The step reads a key OPERATOR value line whose key without @ is the name.
ReadsKeyOfName(name) ==
    /\ pc = "loop" /\ line_number <= Len(text)
    /\ text[line_number].kind = "kv"
    /\ LStripAt(text[line_number].key) = name

\* C29: no parse ever removes a name from the variable table: in every step
\* of every parse_text call, one that returns root, one that fails and one
\* that is left by SystemExit alike, and when a call has returned (a load
\* of the saved table between two calls is no parse), the set of
\* registered names only grows; and a name is added or changes its value
\* only in a step that reads a line whose key without @ is that name.
C29_NamesOnlyGrow ==
    [][pc # "ready" =>
       /\ RegisteredNames(variables) \subseteq RegisteredNames(variables')
       /\ \A name \in RegisteredNames(variables') :
             (name \notin RegisteredNames(variables)
                \/ VarGet(variables', name) # VarGet(variables, name))
             => ReadsKeyOfName(name)]_vars

(***************************************************************************)
(* C30: the text revert returns has balanced brackets.                     *)
(***************************************************************************)
\* The line opens a block: a { of its own, or key OPERATOR {.
WritesOpen(l) == l.line.kind = "{" \/ (l.line.kind = "kv" /\ l.line.val = "{")
OpensWritten(j) == Cardinality({i \in 1..j : WritesOpen(reverted[i])})
ClosesWritten(j) == Cardinality({i \in 1..j : reverted[i].line.kind = "}"})

\* C30: for every document whose strings and keys hold no bracket
\* characters, the text revert returns has balanced brackets: as many lines
\* open a block with { as there are } lines, and no prefix of the text has
\* more closes than opens.
C30_BalancedBrackets ==
    pc = "reverted"
        => /\ OpensWritten(Len(reverted)) = ClosesWritten(Len(reverted))
           /\ \A j \in 0..Len(reverted) : ClosesWritten(j) <= OpensWritten(j)

\* revert wrote a Block under an OperatorValue under a key in a Block under a
\* key: three opens and three closes, nested.
C30_Witness ==
    /\ pc = "reverted"
    /\ obj = Block(<<Entry("a", Block(<<Entry("k", OperatorValueOf(">=",
                Block(<<Entry("b", Block(<<>>))>>)))>>))>>)
    /\ OpensWritten(Len(reverted)) = 3
    /\ ClosesWritten(Len(reverted)) = 3
    /\ Len(reverted) = 6
====
